---------------------------- MODULE Spec2Model ----------------------------
(***************************************************************************)
(* Model of the socket driver of the SRS DG645 delay generator,            *)
(* src/src/id12_common/devices/dg645_delay_gen.py: class Socket (the       *)
(* transport) and class SocketDG645DelayGen (the device facade), together  *)
(* with a test-double instrument at the other end of the TCP connection.   *)
(*                                                                         *)
(* Python values are records [ty, m, e, s]: an int n is m = n, e = 0; a    *)
(* bool is m \in {0,1}; a float is the exact decimal m * 10^e (binary      *)
(* rounding of doubles is not modelled); a str carries its text in s.      *)
(* Text on the wire is a record [k, m, e]: k names the lexical form that   *)
(* the format specification produced ("d" decimal integer, "r" repr of a   *)
(* float, "f2" two fixed decimals, "e" scientific notation, "True" and     *)
(* "False" the words str(bool) produces, "junk" any unparseable text).     *)
(***************************************************************************)
EXTENDS Integers, Sequences, FiniteSets, TLC

\* ------------------------------------------------------------------ bounds
\* Calls a caller starts in one session
MaxCalls == 2

\* --------------------------------------------------------- python values
PyInt(n) == [ty |-> "int", m |-> n, e |-> 0, s |-> ""]
PyBool(b) == [ty |-> "bool", m |-> IF b THEN 1 ELSE 0, e |-> 0, s |-> ""]
PyFloat(mant, exp) == [ty |-> "float", m |-> mant, e |-> exp, s |-> ""]
PyStr(txt) == [ty |-> "str", m |-> 0, e |-> 0, s |-> txt]
PyNone == [ty |-> "none", m |-> 0, e |-> 0, s |-> ""]

IsNumber(v) == v.ty \in {"int", "bool", "float"}

\* ------------------------------------------------- exact decimal numbers
AbsInt(n) == IF n < 0 THEN -n ELSE n

SignInt(n) == IF n > 0 THEN 1 ELSE IF n < 0 THEN -1 ELSE 0

RECURSIVE Pow10(_)
Pow10(n) == IF n <= 0 THEN 1 ELSE 10 * Pow10(n - 1)

RECURSIVE NDigits(_)
NDigits(n) == IF n = 0 THEN 0 ELSE 1 + NDigits(n \div 10)

\* a < b for positive decimals: compare the position of the leading digit,
\* then the mantissas brought to the common exponent
PosLess(a, b) ==
    LET pa == NDigits(a.m) + a.e
        pb == NDigits(b.m) + b.e
        lo == IF a.e < b.e THEN a.e ELSE b.e
    IN  IF pa # pb THEN pa < pb
        ELSE a.m * Pow10(a.e - lo) < b.m * Pow10(b.e - lo)

\* Python's a < b on numbers
NumLess(a, b) ==
    LET sa == SignInt(a.m)
        sb == SignInt(b.m)
        pa == [m |-> AbsInt(a.m), e |-> a.e]
        pb == [m |-> AbsInt(b.m), e |-> b.e]
    IN  IF sa # sb THEN sa < sb
        ELSE IF sa = 0 THEN FALSE
        ELSE IF sa = 1 THEN PosLess(pa, pb)
        ELSE PosLess(pb, pa)

\* Python's a <= b on numbers
NumLeq(a, b) == ~NumLess(b, a)

\* Python's a == b on numbers (True == 1, 1.0 == 1)
NumEq(a, b) == ~NumLess(a, b) /\ ~NumLess(b, a)

\* Python's abs()
PyAbs(v) == [v EXCEPT !.m = AbsInt(v.m)]

\* ------------------------------------------------------------- wire text
Txt(kind, mant, exp) == [k |-> kind, m |-> mant, e |-> exp]

\* round half to even of n / d, d > 0
RoundDiv(n, d) ==
    LET q == AbsInt(n) \div d
        r == AbsInt(n) % d
        up == (2 * r > d) \/ (2 * r = d /\ q % 2 = 1)
    IN  SignInt(n) * (IF up THEN q + 1 ELSE q)

\* f"{v}" : str() of the value
FmtStr(v) ==
    CASE v.ty = "int" -> Txt("d", v.m, 0)
      [] v.ty = "bool" -> Txt(IF v.m = 1 THEN "True" ELSE "False", 0, 0)
      [] v.ty = "float" -> Txt("r", v.m, v.e)
      [] OTHER -> Txt("junk", 0, 0)

\* as Fmt2f, with the digits after the second decimal cut off
Fmt2f_truncated(v) ==
    Txt("f2", IF v.e >= -2 THEN v.m * Pow10(v.e + 2)
              ELSE SignInt(v.m) * (AbsInt(v.m) \div Pow10(-2 - v.e)), -2)

\* f"{v:0.2f}" : fixed point, two decimals
Fmt2f(v) ==
    Txt("f2", IF v.e >= -2 THEN v.m * Pow10(v.e + 2)
              ELSE RoundDiv(v.m, Pow10(-2 - v.e)), -2)

\* f"{v:e}" : scientific notation (mantissas here have at most 7 digits,
\* so the 6 decimals of the format lose nothing)
FmtE(v) == Txt("e", v.m, v.e)

\* int(text) of one reply field: only a decimal integer literal parses
CanInt(t) == t.k = "d"

\* float(text) of one reply field
CanFloat(t) == t.k \in {"d", "r", "f2", "e"}

ParseInt(t) == PyInt(t.m)

ParseFloat(t) == PyFloat(t.m, t.e)

\* ------------------------------------------------------ module constants
DG645_CH == <<"T0", "T1", "A", "B", "C", "D", "E", "F", "G", "H">>

\* list(DG645_OUTPUT_MAP): the keys of the dict, in insertion order
DG645_OUTPUT_NAMES == <<"TO", "AB", "CD", "EF", "GH">>

DG645_AMPLITUDE_ABS_MAX == PyFloat(50, -1)

DG645_AMPLITUDE_ABS_MIN == PyFloat(5, -1)

\* DG645_BURST_MAX = 25.0 and DG645_BURST_MIN = 100.0e-9 (seconds)
DG645_BURST_MAX == PyFloat(250, -1)

DG645_BURST_MIN == PyFloat(100, -9)

DG645_TSRC ==
    <<"Internal", "External rising edges", "External falling edges",
      "Single shot external rising edges",
      "Single shot external falling edges", "Single shot", "Line">>

\* burst_maxtime_limit = Component(Signal, value=41)
BurstMaxtimeLimitDefault == PyInt(41)

\* time.sleep(0.01), in milliseconds
SettleMs == 10

\* bps.sleep(0.01) of the plan stubs, in milliseconds
PlanSettleMs == 10

DG645_ERROR_CODES ==
       (-1 :> <<"Unknown", "DG645 last error code has not yet been requested by ophyd Device support.">>) @@
       (0 :> <<"No Error", "No more errors left in the queue.">>) @@
       (10 :> <<"Illegal Value", "A parameter was out of range.">>) @@
       (11 :> <<"Illegal Mode", "The action is illegal in the current mode. This might happen, for instance, if a single shot is requested when the trigger source is not single shot.">>) @@
       (12 :> <<"Illegal Delay", "The requested delay is out of range.">>) @@
       (13 :> <<"Illegal Link", "The requested delay linkage is illegal.">>) @@
       (14 :> <<"Recall Failed", "The recall of instrument settings from nonvolatile storage failed. The instrument settings were invalid.">>) @@
       (15 :> <<"Not Allowed", "The requested action is not allowed because the instrument is locked by another interface.">>) @@
       (16 :> <<"Failed Self Test", "The DG645 self test failed.">>) @@
       (17 :> <<"Failed Auto Calibration", "The DG645 auto calibration failed.">>) @@
       (30 :> <<"Lost Data", "Data in the output buffer was lost. This occurs if the output buffer overflows, or if a communications error occurs and data in output buffer is discarded.">>) @@
       (32 :> <<"No Listener", "This is a communications error that occurs if the DG645 is addressed to talk on the GPIB bus, but there are no listeners. The DG645 discards any pending output.">>) @@
       (40 :> <<"Failed ROM Check", "The ROM checksum failed. The firmware code is likely corrupted.">>) @@
       (41 :> <<"Failed Offset T0 Test", "Self test of offset functionality for output T0 failed.">>) @@
       (42 :> <<"Failed Offset AB Test", "Self test of offset functionality for output AB failed.">>) @@
       (43 :> <<"Failed Offset CD Test", "Self test of offset functionality for output CD failed.">>) @@
       (44 :> <<"Failed Offset EF Test", "Self test of offset functionality for output EF failed.">>) @@
       (45 :> <<"Failed Offset GH Test", "Self test of offset functionality for output GH failed.">>) @@
       (46 :> <<"Failed Amplitude T0 Test", "Self test of amplitude functionality for output T0 failed.">>) @@
       (47 :> <<"Failed Amplitude AB Test", "Self test of amplitude functionality for output AB failed.">>) @@
       (48 :> <<"Failed Amplitude CD Test", "Self test of amplitude functionality for output CD failed.">>) @@
       (49 :> <<"Failed Amplitude EF Test", "Self test of amplitude functionality for output EF failed.">>) @@
       (50 :> <<"Failed Amplitude GH Test", "Self test of amplitude functionality for output GH failed.">>) @@
       (51 :> <<"Failed FPGA Communications Test", "Self test of FPGA communications failed.">>) @@
       (52 :> <<"Failed GPIB Communications Test", "Self test of GPIB communications failed.">>) @@
       (53 :> <<"Failed DDS Communications Test", "Self test of DDS communications failed.">>) @@
       (54 :> <<"Failed Serial EEPROM Communications Test", "Self test of serial EEPROM communications failed.">>) @@
       (55 :> <<"Failed Temperature Sensor Communications Test", "Self test of the temperature sensor communications failed.">>) @@
       (56 :> <<"Failed PLL Communications Test", "Self test of PLL communications failed.">>) @@
       (57 :> <<"Failed DAC 0 Communications Test", "Self test of DAC 0 communications failed.">>) @@
       (58 :> <<"Failed DAC 1 Communications Test", "Self test of DAC 1 communications failed.">>) @@
       (59 :> <<"Failed DAC 2 Communications Test", "Self test of DAC 2 communications failed.">>) @@
       (60 :> <<"Failed Sample and Hold Operations Test", "Self test of sample and hold operations failed.">>) @@
       (61 :> <<"Failed Vjitter Operations Test", "Self test of Vjitter operation failed.">>) @@
       (62 :> <<"Failed Channel T0 Analog Delay Test", "Self test of channel T0 analog delay failed.">>) @@
       (63 :> <<"Failed Channel T1 Analog Delay Test", "Self test of channel T1 analog delay failed.">>) @@
       (64 :> <<"Failed Channel A Analog Delay Test", "Self test of channel A analog delay failed.">>) @@
       (65 :> <<"Failed Channel B Analog Delay Test", "Self test of channel B analog delay failed.">>) @@
       (66 :> <<"Failed Channel C Analog Delay Test", "Self test of channel C analog delay failed.">>) @@
       (67 :> <<"Failed Channel D Analog Delay Test", "Self test of channel D analog delay failed.">>) @@
       (68 :> <<"Failed Channel E Analog Delay Test", "Self test of channel E analog delay failed.">>) @@
       (69 :> <<"Failed Channel F Analog Delay Test", "Self test of channel F analog delay failed.">>) @@
       (70 :> <<"Failed Channel G Analog Delay Test", "Self test of channel G analog delay failed.">>) @@
       (71 :> <<"Failed Channel H Analog Delay Test", "Self test of channel H analog delay failed.">>) @@
       (80 :> <<"Failed Sample and Hold Calibration", "Auto calibration of sample and hold DAC failed.">>) @@
       (81 :> <<"Failed T0 Calibration", "Auto calibration of channel T0 failed.">>) @@
       (82 :> <<"Failed T1 Calibration", "Auto calibration of channel T1 failed.">>) @@
       (83 :> <<"Failed A Calibration", "Auto calibration of channel A failed.">>) @@
       (84 :> <<"Failed B Calibration", "Auto calibration of channel B failed.">>) @@
       (85 :> <<"Failed C Calibration", "Auto calibration of channel C failed.">>) @@
       (86 :> <<"Failed D Calibration", "Auto calibration of channel D failed.">>) @@
       (87 :> <<"Failed E Calibration", "Auto calibration of channel E failed.">>) @@
       (88 :> <<"Failed F Calibration", "Auto calibration of channel F failed.">>) @@
       (89 :> <<"Failed G Calibration", "Auto calibration of channel G failed.">>) @@
       (90 :> <<"Failed H Calibration", "Auto calibration of channel H failed.">>) @@
       (91 :> <<"Failed Vjitter Calibration", "Auto calibration of Vjitter failed.">>) @@
       (110 :> <<"Illegal Command", "The command syntax used was illegal. A command is normally a sequence of four letters, or a '*' followed by three letters.">>) @@
       (111 :> <<"Undefined Command", "The specified command does not exist.">>) @@
       (112 :> <<"Illegal Query", "The specified command does not permit queries">>) @@
       (113 :> <<"Illegal Set", "The specified command can only be queried.">>) @@
       (114 :> <<"Null Parameter", "The parser detected an empty parameter.">>) @@
       (115 :> <<"Extra Parameters", "The parser detected more parameters than allowed by the command.">>) @@
       (116 :> <<"Missing Parameters", "The parser detected missing parameters required by the command.">>) @@
       (117 :> <<"Parameter Overflow", "The buffer for storing parameter values overflowed. This probably indicates a syntax error.">>) @@
       (118 :> <<"Invalid Floating Point Number", "The parser expected a floating point number, but was unable to parse it.">>) @@
       (120 :> <<"Invalid Integer", "The parser expected an integer, but was unable to parse it.">>) @@
       (121 :> <<"Integer Overflow", "A parsed integer was too large to store correctly.">>) @@
       (122 :> <<"Invalid Hexadecimal", "The parser expected hexadecimal characters but was unable to parse them.">>) @@
       (126 :> <<"Syntax Error", "The parser detected a syntax error in the command.">>) @@
       (170 :> <<"Communication Error", "A communication error was detected. This is reported if the hardware detects a framing, or parity error in the data stream.">>) @@
       (171 :> <<"Over run", "The input buffer of the remote interface overflowed. All data in both the input and output buffers will be flushed.">>) @@
       (254 :> <<"Too Many Errors", "The error buffer is full. Subsequent errors have been dropped.">>)

\* DG645_ERROR_CODES.get(code, ["unknown"])[0]
last_error_brief(code) ==
    LET entry == IF code \in DOMAIN DG645_ERROR_CODES
                 THEN DG645_ERROR_CODES[code] ELSE <<"unknown">>
    IN  entry[1]

\* as last_error_full, with index 0 for index -1
last_error_full_index0(code) ==
    LET entry == IF code \in DOMAIN DG645_ERROR_CODES
                 THEN DG645_ERROR_CODES[code] ELSE <<"unknown">>
    IN  entry[1]

\* DG645_ERROR_CODES.get(code, ["unknown"])[-1]
last_error_full(code) ==
    LET entry == IF code \in DOMAIN DG645_ERROR_CODES
                 THEN DG645_ERROR_CODES[code] ELSE <<"unknown">>
    IN  entry[Len(entry)]

\* ---------------------------------------------------------- wire commands
\* "MN a1,a2" (q = FALSE) or "MN? a1" (q = TRUE)
Cmd(mnemonic, query, arguments) == [mn |-> mnemonic, q |-> query, args |-> arguments]

NoCmd == Cmd("", FALSE, <<>>)

\* what a method did before it returned or raised
Ok(cmds) == [exc |-> "", cmds |-> cmds]

Raise(name) == [exc |-> name, cmds |-> <<>>]

\* ------------------------------------------------------- internal methods
InSeq(choices, x) == \E i \in 1..Len(choices) : choices[i] = x

\* list.index(x): position of the first occurrence, from 0
ListIndex(choices, x) ==
    (CHOOSE i \in 1..Len(choices) :
        choices[i] = x /\ \A j \in 1..(i - 1) : choices[j] # x) - 1

\* _validate_enum(value, label, choices) with only_str = False
validate_enum(value, choices) ==
    IF value.ty = "str" /\ ~InSeq(choices, value.s)
    THEN [exc |-> "KeyError", vv |-> value]
    ELSE LET vv == IF value.ty = "str"
                   THEN PyInt(ListIndex(choices, value.s)) ELSE value
             hi == PyInt(Len(choices) - 1)
         IN  IF ~(NumLeq(PyInt(0), vv) /\ NumLeq(vv, hi))
             THEN [exc |-> "KeyError", vv |-> vv]
             ELSE [exc |-> "", vv |-> vv]

\* value in (0, 1)
In01(value) ==
    IsNumber(value) /\ (NumEq(value, PyInt(0)) \/ NumEq(value, PyInt(1)))

\* bool(value)
Truthy(value) ==
    CASE IsNumber(value) -> value.m # 0
      [] value.ty = "str" -> value.s # ""
      [] OTHER -> FALSE

get_level_amplitude(channel) ==
    LET r == validate_enum(channel, DG645_OUTPUT_NAMES)
    IN  IF r.exc # "" THEN Raise(r.exc)
        ELSE Ok(<<Cmd("LAMP", TRUE, <<FmtStr(r.vv)>>)>>)

\* as set_level_amplitude, with the upper limit of the range test left out
set_level_amplitude_no_max(channel, amplitude) ==
    LET r == validate_enum(channel, DG645_OUTPUT_NAMES)
    IN  IF r.exc # "" THEN Raise(r.exc)
        ELSE IF ~NumLeq(DG645_AMPLITUDE_ABS_MIN, PyAbs(amplitude))
        THEN Raise("ValueError")
        ELSE Ok(<<Cmd("LAMP", FALSE, <<FmtStr(r.vv), Fmt2f(amplitude)>>)>>)

set_level_amplitude(channel, amplitude) ==
    LET r == validate_enum(channel, DG645_OUTPUT_NAMES)
    IN  IF r.exc # "" THEN Raise(r.exc)
        ELSE IF ~(NumLeq(DG645_AMPLITUDE_ABS_MIN, PyAbs(amplitude))
                  /\ NumLeq(PyAbs(amplitude), DG645_AMPLITUDE_ABS_MAX))
        THEN Raise("ValueError")
        ELSE Ok(<<Cmd("LAMP", FALSE, <<FmtStr(r.vv), Fmt2f(amplitude)>>)>>)

get_level_polarity(channel) ==
    LET r == validate_enum(channel, DG645_OUTPUT_NAMES)
    IN  IF r.exc # "" THEN Raise(r.exc)
        ELSE Ok(<<Cmd("LPOL", TRUE, <<FmtStr(r.vv)>>)>>)

set_level_polarity(channel, polarity) ==
    LET r == validate_enum(channel, DG645_OUTPUT_NAMES)
    IN  IF r.exc # "" THEN Raise(r.exc)
        ELSE IF ~In01(polarity) THEN Raise("ValueError")
        ELSE Ok(<<Cmd("LPOL", FALSE, <<FmtStr(r.vv), FmtStr(polarity)>>)>>)

\* as set_channel_delay, with the channel sent as it was given
set_channel_delay_as_given(channel, basis, delay) ==
    LET r == validate_enum(channel, DG645_CH)
    IN  IF r.exc # "" THEN Raise(r.exc)
        ELSE Ok(<<Cmd("DLAY", FALSE,
                      <<FmtStr(channel), FmtStr(basis), FmtStr(delay)>>)>>)

set_channel_delay(channel, basis, delay) ==
    LET r == validate_enum(channel, DG645_CH)
    IN  IF r.exc # "" THEN Raise(r.exc)
        ELSE Ok(<<Cmd("DLAY", FALSE,
                      <<FmtStr(r.vv), FmtStr(basis), FmtStr(delay)>>)>>)

get_channel_delay(channel) ==
    LET r == validate_enum(channel, DG645_CH)
    IN  IF r.exc # "" THEN Raise(r.exc)
        ELSE Ok(<<Cmd("DLAY", TRUE, <<FmtStr(r.vv)>>)>>)

\* one method call after another: the second runs only if the first returned
Then(first, second) ==
    IF first.exc # "" THEN first
    ELSE [exc |-> second.exc, cmds |-> first.cmds \o second.cmds]

\* ------------------------------------------- property setters of the class
burst_mode_set(value) ==
    Ok(<<Cmd("BURM", FALSE, <<Txt("d", IF Truthy(value) THEN 1 ELSE 0, 0)>>)>>)

burst_T0_config_set(value) ==
    IF ~In01(value) THEN Raise("ValueError")
    ELSE Ok(<<Cmd("BURT", FALSE, <<FmtStr(value)>>)>>)

burst_delay_set(value) == Ok(<<Cmd("BURD", FALSE, <<FmtE(value)>>)>>)

\* as burst_count_set, with the default limit for the current one
burst_count_set_default_limit(value, hi) ==
    IF ~(NumLeq(PyInt(0), value) /\ NumLeq(value, BurstMaxtimeLimitDefault))
    THEN Raise("ValueError")
    ELSE Ok(<<Cmd("BURC", FALSE, <<FmtStr(value)>>)>>)

\* _burst_count setter; hi is what burst_maxtime_limit.get() returns
burst_count_set(value, hi) ==
    IF ~(NumLeq(PyInt(0), value) /\ NumLeq(value, hi))
    THEN Raise("ValueError")
    ELSE Ok(<<Cmd("BURC", FALSE, <<FmtStr(value)>>)>>)

\* as burst_period_set, with the bounds themselves excluded
burst_period_set_open(value) ==
    IF ~(NumLess(DG645_BURST_MIN, value) /\ NumLess(value, DG645_BURST_MAX))
    THEN Raise("ValueError")
    ELSE Ok(<<Cmd("BURP", FALSE, <<FmtE(value)>>)>>)

\* _burst_period setter
burst_period_set(value) ==
    IF ~(NumLeq(DG645_BURST_MIN, value) /\ NumLeq(value, DG645_BURST_MAX))
    THEN Raise("ValueError")
    ELSE Ok(<<Cmd("BURP", FALSE, <<FmtE(value)>>)>>)

\* as trigger_source_set, with the position from 1 for a label
trigger_source_set_from1(value) ==
    IF value.ty = "str"
    THEN IF ~InSeq(DG645_TSRC, value.s) THEN Raise("ValueError")
         ELSE Ok(<<Cmd("TSRC", FALSE,
                       <<FmtStr(PyInt(ListIndex(DG645_TSRC, value.s) + 1))>>)>>)
    ELSE IF value.ty \in {"int", "bool"}
    THEN IF value.m < 0 \/ value.m >= Len(DG645_TSRC)
         THEN Raise("ValueError")
         ELSE Ok(<<Cmd("TSRC", FALSE, <<FmtStr(value)>>)>>)
    ELSE Raise("TypeError")

\* _trigger_source setter.  isinstance(value, int) holds for a bool; the
\* test value >= 0 before the send holds for every value that gets there.
trigger_source_set(value) ==
    IF value.ty = "str"
    THEN IF ~InSeq(DG645_TSRC, value.s) THEN Raise("ValueError")
         ELSE Ok(<<Cmd("TSRC", FALSE,
                       <<FmtStr(PyInt(ListIndex(DG645_TSRC, value.s)))>>)>>)
    ELSE IF value.ty \in {"int", "bool"}
    THEN IF value.m < 0 \/ value.m >= Len(DG645_TSRC)
         THEN Raise("ValueError")
         ELSE Ok(<<Cmd("TSRC", FALSE, <<FmtStr(value)>>)>>)
    ELSE Raise("TypeError")

\* list[idx]: a negative idx counts from the end
ListGet(choices, idx) ==
    LET n == Len(choices)
    IN  IF idx >= 0 /\ idx < n THEN [exc |-> "", s |-> choices[idx + 1]]
        ELSE IF idx < 0 /\ idx >= -n THEN [exc |-> "", s |-> choices[n + idx + 1]]
        ELSE [exc |-> "IndexError", s |-> ""]

\* The class body's definitions of the amplitude and polarity properties, in
\* source order.  "property": @property def name, bound to fn(ch).
\* "setter": @base.setter def name, bound to fn(ch).
Stmt(decorator, baseName, defName, func, chan) ==
    [dec |-> decorator, base |-> baseName, name |-> defName,
     fn |-> func, ch |-> chan]

ClassBody ==
    << Stmt("property", "", "_amplitude0", "amplitude", 0),
       Stmt("setter", "_amplitude0", "_amplitude0", "amplitude", 0),
       Stmt("property", "", "_amplitude1", "amplitude", 1),
       Stmt("setter", "_amplitude1", "_amplitude1", "amplitude", 1),
       Stmt("property", "", "_amplitude2", "amplitude", 2),
       Stmt("setter", "_amplitude2", "_amplitude2", "amplitude", 2),
       Stmt("property", "", "_amplitude3", "amplitude", 3),
       Stmt("setter", "_amplitude3", "_amplitude3", "amplitude", 3),
       Stmt("property", "", "_amplitude4", "amplitude", 4),
       Stmt("setter", "_amplitude4", "_amplitude4", "amplitude", 4),
       Stmt("property", "", "_polarity0", "polarity", 0),
       Stmt("setter", "_polarity0", "_polarity0", "polarity", 0),
       Stmt("property", "", "_polarity1", "polarity", 1),
       Stmt("setter", "_polarity1", "_polarity1", "polarity", 1),
       Stmt("property", "", "_polarity2", "polarity", 2),
       Stmt("setter", "_polarity2", "_polarity2", "polarity", 2),
       Stmt("property", "", "_polarity3", "polarity", 3),
       Stmt("setter", "_polarity3", "_polarity", "polarity", 3),
       Stmt("property", "", "_polarity4", "polarity", 4),
       Stmt("setter", "_polarity", "_polarity4", "polarity", 4) >>

\* The class namespace after the first n definitions.  @property binds
\* the name to property(fget); @base.setter binds the name to a copy of the
\* property object named base with fset replaced.
RECURSIVE ClassNamespace(_)
ClassNamespace(n) ==
    IF n = 0 THEN << >>
    ELSE LET ns == ClassNamespace(n - 1)
             st == ClassBody[n]
             f == [fn |-> st.fn, ch |-> st.ch]
             prop == IF st.dec = "property"
                     THEN [fget |-> <<f>>, fset |-> << >>]
                     ELSE [fget |-> ns[st.base].fget, fset |-> <<f>>]
         IN  [a \in (DOMAIN ns) \cup {st.name} |->
                 IF a = st.name THEN prop ELSE ns[a]]

Attrs == ClassNamespace(Len(ClassBody))

\* Component(AttributeSignal, attr=...)
SignalAttr ==
    [amplitudeT0 |-> "_amplitude0", amplitudeAB |-> "_amplitude1",
     amplitudeCD |-> "_amplitude2", amplitudeEF |-> "_amplitude3",
     amplitudeGH |-> "_amplitude4",
     polarityT0 |-> "_polarity0", polarityAB |-> "_polarity1",
     polarityCD |-> "_polarity2", polarityEF |-> "_polarity3",
     polarityGH |-> "_polarity4"]

AmplitudeSignals ==
    {"amplitudeT0", "amplitudeAB", "amplitudeCD", "amplitudeEF", "amplitudeGH"}

PolaritySignals ==
    {"polarityT0", "polarityAB", "polarityCD", "polarityEF", "polarityGH"}

\* getattr(device, attr): the property's fget
GetAttr(attr) ==
    LET f == Attrs[attr].fget[1]
    IN  IF f.fn = "amplitude" THEN get_level_amplitude(PyInt(f.ch))
        ELSE get_level_polarity(PyInt(f.ch))

\* setattr(device, attr, value): the property's fset, if it has one
SetAttr(attr, value) ==
    LET p == Attrs[attr]
    IN  IF p.fset = << >> THEN Raise("AttributeError")
        ELSE IF p.fset[1].fn = "amplitude"
        THEN set_level_amplitude(PyInt(p.fset[1].ch), value)
        ELSE set_level_polarity(PyInt(p.fset[1].ch), value)

\* ------------------------------------------------- composite pulse helpers
set_delay_T0(delay) == set_channel_delay(PyInt(1), PyInt(0), delay)

\* as set_delay_pair, with the trailing edge referred to T0
set_delay_pair_ref0(ch, delay, duration) ==
    Then(set_channel_delay(PyInt(ch), PyInt(0), delay),
         set_channel_delay(PyInt(ch + 1), PyInt(0), duration))

\* the body shared by set_delay_AB, _CD, _EF and _GH, which differ in ch
set_delay_pair(ch, delay, duration) ==
    Then(set_channel_delay(PyInt(ch), PyInt(0), delay),
         set_channel_delay(PyInt(ch + 1), PyInt(ch), duration))

set_delay_AB(delay, duration) == set_delay_pair(2, delay, duration)

set_delay_CD(delay, duration) == set_delay_pair(4, delay, duration)

set_delay_EF(delay, duration) == set_delay_pair(6, delay, duration)

set_delay_GH(delay, duration) == set_delay_pair(8, delay, duration)


\* ------------------------------------------------------------------ trigger
\* DeviceStatus(self): a status object, not finished
DeviceStatus == [ty |-> "status", m |-> 0, e |-> 0, s |-> ""]

\* status.set_finished()
set_finished(status) == [status EXCEPT !.m = 1]

\* _initiate_trigger
initiate_trigger == Ok(<<Cmd("*TRG", FALSE, << >>)>>)

\* as trigger_method, without the call of set_finished
trigger_method_unfinished ==
    [exc |-> "", cmds |-> initiate_trigger.cmds, ret |-> DeviceStatus]

\* trigger(): what it sent and the status object it returns
trigger_method ==
    [exc |-> "", cmds |-> initiate_trigger.cmds,
     ret |-> set_finished(DeviceStatus)]

\* ------------------------------------------------------------- set_defaults
\* DG645_AMP: the amplitudes of DG645_OUTPUT_MAP, in its order (2.5, 4.0,
\* 3.0, 2.5, 4.5)
DG645_AMP ==
    <<PyFloat(25, -1), PyFloat(40, -1), PyFloat(30, -1), PyFloat(25, -1),
      PyFloat(45, -1)>>

\* the names of the Components of the class
ComponentNames ==
    AmplitudeSignals \cup PolaritySignals \cup
    {"delayT0", "delayT1", "delayA", "delayB", "delayC", "delayD", "delayE",
     "delayF", "delayG", "delayH", "host", "port", "burst_maxtime_limit",
     "burst_count", "burst_delay", "burst_mode_enable", "burst_period",
     "burst_T0_config", "delaytextT0", "delaytextT1", "delaytextA",
     "delaytextB", "delaytextC", "delaytextD", "delaytextE", "delaytextF",
     "delaytextG", "delaytextH", "last_error_code", "identify",
     "instrument_status", "serial_poll_status", "standard_event_status",
     "trigger_source"}

\* the statements of set_defaults: self.<attr>.put(DG645_AMP[idx])
SetDefaultsBody ==
    <<[attr |-> "amplitude1", idx |-> 1], [attr |-> "amplitude2", idx |-> 2],
      [attr |-> "amplitude3", idx |-> 3], [attr |-> "amplitude4", idx |-> 4]>>

\* self.<attr>.put(value): the attribute lookup on the device, then the put
\* of the signal found
PutByName(attr, value) ==
    IF attr \notin ComponentNames THEN Raise("AttributeError")
    ELSE IF attr \in DOMAIN SignalAttr THEN SetAttr(SignalAttr[attr], value)
    ELSE Ok(<< >>)

\* the statements of set_defaults from the i-th on
RECURSIVE set_defaults_from(_)
set_defaults_from(i) ==
    IF i > Len(SetDefaultsBody) THEN Ok(<< >>)
    ELSE Then(PutByName(SetDefaultsBody[i].attr,
                        DG645_AMP[SetDefaultsBody[i].idx + 1]),
              set_defaults_from(i + 1))

set_defaults == set_defaults_from(1)
\* ------------------------------------------------------------------ inputs
\* amplitudes (volts) a caller may pass: 6.0, 0.1, 0.5, 5.0, -2.5, -6.0,
\* 5.01, 0.49, 1.234 and -1.236
AmplitudeInputs ==
    {PyFloat(60, -1), PyFloat(1, -1), PyFloat(5, -1), PyFloat(50, -1),
     PyFloat(-25, -1), PyFloat(-60, -1), PyFloat(501, -2), PyFloat(49, -2),
     PyFloat(1234, -3), PyFloat(-1236, -3)}

\* polarities a caller may pass: 0, 1, 2, -1, True, 1.0
PolarityInputs ==
    {PyInt(0), PyInt(1), PyInt(2), PyInt(-1), PyBool(TRUE), PyFloat(1, 0)}

\* output identifiers passed to the internal methods
OutputIdents ==
    {PyInt(i) : i \in -1..5} \cup
    {PyStr(n) : n \in {"T0", "AB", "CD", "EF", "GH", "XY"}}

\* delays and durations (seconds): 0.001, 0 and 5e-06
DelayInputs == {PyFloat(1, -3), PyInt(0)}

DurationInputs == {PyFloat(5, -6)}

\* values put to the burst signals
BurstBoolInputs == {PyBool(TRUE), PyBool(FALSE), PyInt(1), PyInt(0), PyInt(2)}

BurstDelayInputs == {PyInt(0), PyFloat(1, -3)}

\* trigger sources a caller may pass: the seven labels, an unknown label,
\* -1, 0, 6, 7, True, 1.0 and None
TriggerInputs ==
    {PyStr(DG645_TSRC[i]) : i \in 1..Len(DG645_TSRC)} \cup
    {PyStr("Bogus"), PyInt(-1), PyInt(0), PyInt(6), PyInt(7), PyBool(TRUE),
     PyFloat(1, 0), PyNone}

\* channel identifiers passed to the internal methods
ChannelIdents ==
    {PyInt(-1), PyInt(0), PyInt(2), PyInt(9), PyInt(10),
     PyStr("A"), PyStr("T0"), PyStr("H"), PyStr("Z")}

\* reference channels (basis) of a delay
BasisInputs == {PyInt(0), PyInt(2)}

\* channels of the read-only signals delayT0, delayA and delayH
DelaySignalChannels == {0, 2, 9}

BurstCountInputs ==
    {PyInt(-1), PyInt(0), PyInt(10), PyInt(11), PyInt(41), PyInt(42)}

\* values put to burst_maxtime_limit
LimitInputs == {PyInt(10), PyInt(100)}

\* burst periods (seconds): 100e-9, 25.0, 99e-9, 25.1 and 0.001
BurstPeriodInputs ==
    {PyFloat(100, -9), PyFloat(250, -1), PyFloat(99, -9), PyFloat(251, -1),
     PyFloat(1, -3)}

\* arguments of burst_set
BurstSetCycles == {PyInt(10), PyInt(42)}

BurstSetPeriods == {PyFloat(1, -3), PyFloat(251, -1)}

StepLabels == {"load", "arm"}

\* codes the instrument may hold in its error queue
InstrCodes == {0, 170, 9999}

\* ------------------------------------------------------------------- state
Threads == {1, 2}

\* A session uses the operations on one family of parameters, and the
\* operations that belong to no family (check_error, last_error_code,
\* identify).  The signals of the outputs and the internal methods that
\* take an output identifier are families of their own.
Families ==
    {"amplitude", "polarity", "output_amplitude", "output_polarity", "burst",
     "delay", "count", "trigger", "plan"}

VARIABLES
    callers,          \* the threads that call the driver
    family,           \* the family of parameters this session works on
    pc,               \* per thread: "idle", "recv" (blocked in Socket.receive),
                      \* "sleep" (in time.sleep between the writes of a burst)
    cur,              \* per thread: the facade call in progress, or the last one
    res,              \* per thread: how that call ended
    log,              \* per thread: the transport events of that call, in order
    ncalls,           \* calls started so far
    last_error_code,  \* SocketDG645DelayGen._last_error_code
    txq,              \* commands written to the socket, not yet read by the DG645
    rxbuf,            \* replies in the socket's receive buffer
    asked,            \* history: for each query in txq, the number of the call
                      \* that sent it
    rxOf,             \* history: for each reply in rxbuf, the number of the
                      \* call whose query it answers
    lastWrite,        \* the instrument: the last write command it accepted
    burstMode,        \* the instrument: its burst mode, as text
    timedOut,         \* history: some socket.recv has timed out
    checked,          \* history: <<c>> if c is the code the instrument sent
                      \* to the last check_error that got a code, else << >>
    burst_maxtime_limit  \* value of the signal burst_maxtime_limit

vars == <<callers, family, pc, cur, res, log, ncalls, last_error_code, txq, rxbuf,
          asked, rxOf,
          lastWrite, burstMode, timedOut, checked,
                   burst_maxtime_limit>>

Call(opName, signal, channel, value, value2) ==
    [op |-> opName, sig |-> signal, ident |-> channel, val |-> value,
     val2 |-> value2, step |-> 0]

NoCall == Call("", "", PyNone, PyNone, PyNone)

Running == [st |-> "running", exc |-> "", val |-> << >>]

Done(excName, value) == [st |-> "done", exc |-> excName, val |-> value]

NoWarning == [step |-> "", code |-> 0, brief |-> "", full |-> ""]

\* the events of a call: Socket.send of a command, socket.recv returning
\* got (history: ids, the calls whose queries these replies answer),
\* time.sleep of ms milliseconds, logger.warning of a record
SendEv(c) ==
    [ev |-> "send", cmd |-> c, ms |-> 0, w |-> NoWarning, rx |-> << >>,
     of |-> << >>]

SleepEv ==
    [ev |-> "sleep", cmd |-> NoCmd, ms |-> SettleMs, w |-> NoWarning,
     rx |-> << >>, of |-> << >>]

RecvEv(got, ids) ==
    [ev |-> "recv", cmd |-> NoCmd, ms |-> 0, w |-> NoWarning, rx |-> got,
     of |-> ids]

WarnEv(rec) ==
    [ev |-> "warn", cmd |-> NoCmd, ms |-> 0, w |-> rec, rx |-> << >>,
     of |-> << >>]

SendEvs(cmds) == [i \in 1..Len(cmds) |-> SendEv(cmds[i])]

InitWith(cs) ==
    /\ callers = cs
    /\ family \in Families
    /\ pc = [t \in Threads |-> "idle"]
    /\ cur = [t \in Threads |-> NoCall]
    /\ res = [t \in Threads |-> [st |-> "none", exc |-> "", val |-> << >>]]
    /\ log = [t \in Threads |-> << >>]
    /\ ncalls = 0
    /\ last_error_code = -1
    /\ txq = << >>
    /\ rxbuf = << >>
    /\ asked = << >>
    /\ rxOf = << >>
    /\ lastWrite = NoCmd
    /\ burstMode = <<Txt("d", 0, 0)>>
    /\ timedOut = FALSE
    /\ checked = << >>
    /\ burst_maxtime_limit = BurstMaxtimeLimitDefault

\* SocketDG645DelayGen(host=..., name=...) used by one thread
Init == InitWith({1})

\* the same driver instance shared by two threads
InitConc == InitWith(Threads)

\* ------------------------------------------------------------ the transport
\* The connection after cmds are written to it.  The instrument reads a
\* write as soon as it is the oldest unread command (when it does so is not
\* observable by the driver: replies come back in the order of the queries);
\* a query waits in q until the instrument answers it.
RECURSIVE Deliver(_, _, _)
Deliver(q, lw, cmds) ==
    IF cmds = << >> THEN [q |-> q, lw |-> lw]
    ELSE IF q = << >> /\ ~Head(cmds).q
    THEN Deliver(q, Head(cmds), Tail(cmds))
    ELSE Deliver(Append(q, Head(cmds)), lw, Tail(cmds))

\* the writes among cmds that the instrument reads at once: those in front
\* of the first query, when no query waits in q
Taken(q, cmds) ==
    IF q # << >> THEN << >>
    ELSE LET n == CHOOSE k \in 0..Len(cmds) :
                      /\ \A i \in 1..k : ~cmds[i].q
                      /\ k = Len(cmds) \/ cmds[k + 1].q
         IN  SubSeq(cmds, 1, n)

\* the burst mode the instrument holds after reading the writes ws
StoreBurstMode(bm, ws) ==
    LET at == {i \in 1..Len(ws) : ws[i].mn = "BURM"}
    IN  IF at = {} THEN bm
        ELSE ws[CHOOSE i \in at : \A j \in at : j <= i].args

\* Socket.send, once for each command
SocketSend(t, cmds) ==
    LET d == Deliver(txq, lastWrite, cmds)
    IN  /\ txq' = d.q
        /\ lastWrite' = d.lw
        /\ burstMode' = StoreBurstMode(burstMode, Taken(txq, cmds))
        /\ asked' = asked \o [i \in 1..Len(SelectSeq(cmds, LAMBDA c : c.q))
                                 |-> ncalls + 1]

\* a thread enters a facade call
Enter(t, call) ==
    /\ t \in callers
    /\ pc[t] = "idle"
    /\ ncalls < MaxCalls
    /\ ncalls' = ncalls + 1
    /\ cur' = [cur EXCEPT ![t] = call]

\* a call that validates and writes, and reads nothing: eff is what its
\* body did
RunWrite(t, call, eff) ==
    /\ Enter(t, call)
    /\ SocketSend(t, eff.cmds)
    /\ log' = [log EXCEPT ![t] = SendEvs(eff.cmds)]
    /\ res' = [res EXCEPT ![t] = Done(eff.exc, << >>)]
    /\ UNCHANGED <<callers, family, pc, last_error_code, rxbuf, rxOf, timedOut, checked,
                   burst_maxtime_limit>>

\* a call that validates, sends a query with Socket.send_receive and blocks
\* in Socket.receive
RunQuery(t, call, eff) ==
    /\ Enter(t, call)
    /\ SocketSend(t, eff.cmds)
    /\ log' = [log EXCEPT ![t] = SendEvs(eff.cmds)]
    /\ IF eff.exc = ""
       THEN /\ pc' = [pc EXCEPT ![t] = "recv"]
            /\ res' = [res EXCEPT ![t] = Running]
       ELSE /\ pc' = pc
            /\ res' = [res EXCEPT ![t] = Done(eff.exc, << >>)]
    /\ UNCHANGED <<callers, family, last_error_code, rxbuf, rxOf, timedOut, checked,
                   burst_maxtime_limit>>

\* ------------------------------------------------------ facade: the signals
AmplitudePut(t, sig, v) ==
    /\ family = "amplitude"
    /\ RunWrite(t, Call("amplitude.put", sig, PyNone, v, PyNone),
             SetAttr(SignalAttr[sig], v))

AmplitudeGet(t, sig) ==
    /\ family = "amplitude"
    /\ RunQuery(t, Call("amplitude.get", sig, PyNone, PyNone, PyNone),
             GetAttr(SignalAttr[sig]))

PolarityPut(t, sig, v) ==
    /\ family = "polarity"
    /\ RunWrite(t, Call("polarity.put", sig, PyNone, v, PyNone),
             SetAttr(SignalAttr[sig], v))

PolarityGet(t, sig) ==
    /\ family = "polarity"
    /\ RunQuery(t, Call("polarity.get", sig, PyNone, PyNone, PyNone),
             GetAttr(SignalAttr[sig]))

BurstModePut(t, v) ==
    /\ family = "burst"
    /\ RunWrite(t, Call("burst_mode_enable.put", "", PyNone, v, PyNone),
             burst_mode_set(v))

BurstModeGet(t) ==
    /\ family = "burst"
    /\ RunQuery(t, Call("burst_mode_enable.get", "", PyNone, PyNone, PyNone),
             Ok(<<Cmd("BURM", TRUE, << >>)>>))

BurstT0ConfigPut(t, v) ==
    /\ family = "burst"
    /\ RunWrite(t, Call("burst_T0_config.put", "", PyNone, v, PyNone),
             burst_T0_config_set(v))

BurstDelayPut(t, v) ==
    /\ family = "burst"
    /\ RunWrite(t, Call("burst_delay.put", "", PyNone, v, PyNone),
             burst_delay_set(v))

BurstCountPut(t, v) ==
    /\ family = "count"
    /\ RunWrite(t, Call("burst_count.put", "", PyNone, v, PyNone),
             burst_count_set(v, burst_maxtime_limit))

BurstCountGet(t) ==
    /\ family = "count"
    /\ RunQuery(t, Call("burst_count.get", "", PyNone, PyNone, PyNone),
             Ok(<<Cmd("BURC", TRUE, << >>)>>))

BurstPeriodPut(t, v) ==
    /\ family = "count"
    /\ RunWrite(t, Call("burst_period.put", "", PyNone, v, PyNone),
             burst_period_set(v))

\* burst_maxtime_limit.put(v): a plain Signal, no I/O
BurstMaxtimeLimitPut(t, v) ==
    /\ family = "count"
    /\ Enter(t, Call("burst_maxtime_limit.put", "", PyNone, v, PyNone))
    /\ burst_maxtime_limit' = v
    /\ log' = [log EXCEPT ![t] = << >>]
    /\ res' = [res EXCEPT ![t] = Done("", << >>)]
    /\ UNCHANGED <<callers, family, pc, last_error_code, txq, asked, rxbuf, rxOf, lastWrite,
                   burstMode,
                   timedOut, checked>>

TriggerSourcePut(t, v) ==
    /\ family = "trigger"
    /\ RunWrite(t, Call("trigger_source.put", "", PyNone, v, PyNone),
             trigger_source_set(v))

TriggerSourceGet(t) ==
    /\ family = "trigger"
    /\ RunQuery(t, Call("trigger_source.get", "", PyNone, PyNone, PyNone),
             Ok(<<Cmd("TSRC", TRUE, << >>)>>))

\* trigger(): sends with Socket.send and returns its status object
Trigger(t) ==
    /\ family = "trigger"
    /\ Enter(t, Call("trigger", "", PyNone, PyNone, PyNone))
    /\ SocketSend(t, trigger_method.cmds)
    /\ log' = [log EXCEPT ![t] = SendEvs(trigger_method.cmds)]
    /\ res' = [res EXCEPT ![t] = Done(trigger_method.exc, <<trigger_method.ret>>)]
    /\ UNCHANGED <<callers, family, pc, last_error_code, rxbuf, rxOf, timedOut, checked,
                   burst_maxtime_limit>>

\* delayT0.get() .. delayH.get(): _delayN is _get_channel_delay(N)[1]
DelayGet(t, ch) ==
    /\ family = "delay"
    /\ RunQuery(t, Call("delay.get", "", PyInt(ch), PyNone, PyNone),
             get_channel_delay(PyInt(ch)))

\* last_error_code.get(): reads the attribute, no I/O
LastErrorCodeGet(t) ==
    /\ Enter(t, Call("last_error_code.get", "", PyNone, PyNone, PyNone))
    /\ log' = [log EXCEPT ![t] = << >>]
    /\ res' = [res EXCEPT ![t] = Done("", <<PyInt(last_error_code)>>)]
    /\ UNCHANGED <<callers, family, pc, last_error_code, txq, asked, rxbuf, rxOf, lastWrite,
                   burstMode,
                   timedOut, checked,
                   burst_maxtime_limit>>

Identify(t) ==
    /\ t \in Threads
    /\ RunQuery(t, Call("identify.get", "", PyNone, PyNone, PyNone),
             Ok(<<Cmd("*IDN", TRUE, << >>)>>))

\* --------------------------------------------- facade: the internal methods
GetLevelAmplitude(t, ident) ==
    /\ family = "output_amplitude"
    /\ RunQuery(t, Call("_get_level_amplitude", "", ident, PyNone, PyNone),
             get_level_amplitude(ident))

SetLevelAmplitude(t, ident, v) ==
    /\ family = "output_amplitude"
    /\ RunWrite(t, Call("_set_level_amplitude", "", ident, v, PyNone),
             set_level_amplitude(ident, v))

GetLevelPolarity(t, ident) ==
    /\ family = "output_polarity"
    /\ RunQuery(t, Call("_get_level_polarity", "", ident, PyNone, PyNone),
             get_level_polarity(ident))

SetLevelPolarity(t, ident, v) ==
    /\ family = "output_polarity"
    /\ RunWrite(t, Call("_set_level_polarity", "", ident, v, PyNone),
             set_level_polarity(ident, v))

GetChannelDelay(t, ident) ==
    /\ family = "delay"
    /\ RunQuery(t, Call("_get_channel_delay", "", ident, PyNone, PyNone),
             get_channel_delay(ident))

SetChannelDelay(t, ident, basis, d) ==
    /\ family = "delay"
    /\ RunWrite(t, Call("_set_channel_delay", "", ident, d, basis),
             set_channel_delay(ident, basis, d))

\* ------------------------------------------------- facade: support methods
SetDelayT0(t, d) ==
    /\ family = "delay"
    /\ RunWrite(t, Call("set_delay_T0", "", PyNone, d, PyNone), set_delay_T0(d))

SetDelayAB(t, d, dur) ==
    /\ family = "delay"
    /\ RunWrite(t, Call("set_delay_AB", "", PyNone, d, dur), set_delay_AB(d, dur))

SetDelayCD(t, d, dur) ==
    /\ family = "delay"
    /\ RunWrite(t, Call("set_delay_CD", "", PyNone, d, dur), set_delay_CD(d, dur))

SetDelayEF(t, d, dur) ==
    /\ family = "delay"
    /\ RunWrite(t, Call("set_delay_EF", "", PyNone, d, dur), set_delay_EF(d, dur))

SetDelayGH(t, d, dur) ==
    /\ family = "delay"
    /\ RunWrite(t, Call("set_delay_GH", "", PyNone, d, dur), set_delay_GH(d, dur))

SetDefaults(t) ==
    /\ family = "amplitude"
    /\ RunWrite(t, Call("set_defaults", "", PyNone, PyNone, PyNone),
             set_defaults)

\* check_error(step) up to the point where _request_last_error_code blocks
\* in Socket.receive; Receive finishes it
CheckError(t, label) ==
    /\ t \in Threads
    /\ RunQuery(t, Call("check_error", label, PyNone, PyNone, PyNone),
             Ok(<<Cmd("LERR", TRUE, << >>)>>))

\* as burst_set_puts, with the period written before the count
burst_set_puts_period_first(cycles, period, delay, hi) ==
    <<burst_period_set(period), burst_count_set(cycles, hi),
      burst_delay_set(delay)>>

\* the signal puts of burst_set(cycles, period, delay), in its order
burst_set_puts(cycles, period, delay, hi) ==
    <<burst_count_set(cycles, hi), burst_period_set(period),
      burst_delay_set(delay)>>

\* the plan stub burst_init(dg645): the signal puts of its bps.mv messages,
\* in its order
plan_burst_init_puts ==
    <<burst_mode_set(PyBool(TRUE)), burst_T0_config_set(PyBool(TRUE)),
      burst_delay_set(PyInt(0))>>

\* as plan_burst_set_puts, with the delay moved before the count
plan_burst_set_puts_delay_first(cycles, period, delay, hi) ==
    <<burst_delay_set(delay), burst_count_set(cycles, hi),
      burst_period_set(period)>>

\* the plan stub burst_set(dg645, cycles, period, delay): the signal puts of
\* its bps.mv messages, in its order
plan_burst_set_puts(cycles, period, delay, hi) ==
    <<burst_count_set(cycles, hi), burst_period_set(period),
      burst_delay_set(delay)>>

\* the signal puts of a burst method or plan stub, in its order
BurstPuts(call) ==
    CASE call.op = "burst_init" ->
             <<burst_mode_set(PyBool(TRUE)), burst_T0_config_set(PyBool(TRUE)),
               burst_delay_set(PyInt(0))>>
      [] call.op = "burst_set" ->
             burst_set_puts(call.ident, call.val, call.val2,
                            burst_maxtime_limit)
      [] call.op = "plan.burst_init" -> plan_burst_init_puts
      [] call.op = "plan.burst_set" ->
             plan_burst_set_puts(call.ident, call.val, call.val2,
                                 burst_maxtime_limit)
      [] OTHER -> << >>

\* the sleep after a put: time.sleep(0.01) in the methods, bps.sleep(0.01)
\* in the plan stubs
SettleSleep(call) ==
    IF call.op \in {"plan.burst_init", "plan.burst_set"}
    THEN [SleepEv EXCEPT !.ms = PlanSettleMs]
    ELSE SleepEv

\* as BurstPut, with the exception of a put caught and the method going on
BurstPut_going_on(t, call, k, before) ==
    LET eff == BurstPuts(call)[k]
    IN  /\ SocketSend(t, eff.cmds)
        /\ cur' = [cur EXCEPT ![t] = [call EXCEPT !.step = k]]
        /\ log' = [log EXCEPT ![t] =
                       before \o SendEvs(eff.cmds) \o <<SettleSleep(call)>>]
        /\ pc' = [pc EXCEPT ![t] = "sleep"]
        /\ res' = [res EXCEPT ![t] = Running]

\* the k-th put of a burst method and the time.sleep(0.01) after it; a put
\* that raises ends the call
BurstPut(t, call, k, before) ==
    LET eff == BurstPuts(call)[k]
    IN  /\ SocketSend(t, eff.cmds)
        /\ cur' = [cur EXCEPT ![t] = [call EXCEPT !.step = k]]
        /\ IF eff.exc = ""
           THEN /\ log' = [log EXCEPT ![t] =
                              before \o SendEvs(eff.cmds) \o <<SettleSleep(call)>>]
                /\ pc' = [pc EXCEPT ![t] = "sleep"]
                /\ res' = [res EXCEPT ![t] = Running]
           ELSE /\ log' = [log EXCEPT ![t] = before]
                /\ pc' = [pc EXCEPT ![t] = "idle"]
                /\ res' = [res EXCEPT ![t] = Done(eff.exc, << >>)]

BurstInit(t) ==
    /\ family = "burst"
    /\ t \in callers
    /\ pc[t] = "idle"
    /\ ncalls < MaxCalls
    /\ ncalls' = ncalls + 1
    /\ BurstPut(t, Call("burst_init", "", PyNone, PyNone, PyNone), 1, << >>)
    /\ UNCHANGED <<callers, family, last_error_code, rxbuf, rxOf, timedOut, checked,
                   burst_maxtime_limit>>

BurstSet(t, cycles, period, delay) ==
    /\ family = "count"
    /\ t \in callers
    /\ pc[t] = "idle"
    /\ ncalls < MaxCalls
    /\ ncalls' = ncalls + 1
    /\ BurstPut(t, Call("burst_set", "", cycles, period, delay), 1, << >>)
    /\ UNCHANGED <<callers, family, last_error_code, rxbuf, rxOf, timedOut, checked,
                   burst_maxtime_limit>>

\* the RunEngine runs the plan stub burst_init
PlanBurstInit(t) ==
    /\ family = "plan"
    /\ t \in callers
    /\ pc[t] = "idle"
    /\ ncalls < MaxCalls
    /\ ncalls' = ncalls + 1
    /\ BurstPut(t, Call("plan.burst_init", "", PyNone, PyNone, PyNone), 1,
                << >>)
    /\ UNCHANGED <<callers, family, last_error_code, rxbuf, rxOf, timedOut,
                   checked, burst_maxtime_limit>>

\* the RunEngine runs the plan stub burst_set
PlanBurstSet(t, cycles, period, delay) ==
    /\ family = "plan"
    /\ t \in callers
    /\ pc[t] = "idle"
    /\ ncalls < MaxCalls
    /\ ncalls' = ncalls + 1
    /\ BurstPut(t, Call("plan.burst_set", "", cycles, period, delay), 1, << >>)
    /\ UNCHANGED <<callers, family, last_error_code, rxbuf, rxOf, timedOut,
                   checked, burst_maxtime_limit>>

\* time.sleep returns: the next put of the burst method, or its return
BurstStep(t) ==
    /\ t \in callers
    /\ pc[t] = "sleep"
    /\ IF cur[t].step < Len(BurstPuts(cur[t]))
       THEN BurstPut(t, cur[t], cur[t].step + 1, log[t])
       ELSE /\ pc' = [pc EXCEPT ![t] = "idle"]
            /\ res' = [res EXCEPT ![t] = Done("", << >>)]
            /\ UNCHANGED <<cur, log, txq, asked, lastWrite, burstMode>>
    /\ UNCHANGED <<callers, family, ncalls, last_error_code, rxbuf, rxOf, timedOut, checked,
                   burst_maxtime_limit>>

\* -------------------------------------------------------------- the replies
\* how the caller of send_receive converts the text it got
DecodeKind(call) ==
    CASE call.op \in {"amplitude.get", "_get_level_amplitude"} -> "float"
      [] call.op \in {"polarity.get", "_get_level_polarity"} -> "int"
      [] call.op \in {"check_error", "burst_count.get"} -> "int"
      [] call.op = "trigger_source.get" -> "tsrc"
      [] call.op = "burst_mode_enable.get" -> "is1"
      [] call.op = "_get_channel_delay" -> "pair"
      [] call.op = "delay.get" -> "delay"
      [] OTHER -> "raw"

\* as burst_mode_get, with every reply but "0" taken for true
burst_mode_get_nonzero(got) == PyBool(got # <<<<Txt("d", 0, 0)>>>>)

\* the getter of _burst_mode: send_receive("BURM?") == "1"
burst_mode_get(got) == PyBool(got = <<<<Txt("d", 1, 0)>>>>)

\* got: what one socket.recv returned, a sequence of replies (lines), each
\* a sequence of comma-separated fields.  int() and float() accept one
\* number only.
Decode(kind, got) ==
    LET one == Len(got) = 1 /\ Len(got[1]) = 1
    IN  CASE kind = "int" ->
               IF one /\ CanInt(got[1][1])
               THEN Done("", <<ParseInt(got[1][1])>>)
               ELSE Done("ValueError", << >>)
          [] kind = "float" ->
               IF one /\ CanFloat(got[1][1])
               THEN Done("", <<ParseFloat(got[1][1])>>)
               ELSE Done("ValueError", << >>)
          [] kind = "is1" -> Done("", <<burst_mode_get(got)>>)
          [] kind = "tsrc" ->
               IF one /\ CanInt(got[1][1])
               THEN LET label == ListGet(DG645_TSRC, got[1][1].m)
                    IN  IF label.exc # "" THEN Done(label.exc, << >>)
                        ELSE Done("", <<PyStr(label.s)>>)
               ELSE Done("ValueError", << >>)
          [] kind \in {"pair", "delay"} ->
               IF Len(got) = 1 /\ Len(got[1]) = 2
                  /\ CanInt(got[1][1]) /\ CanFloat(got[1][2])
               THEN IF kind = "pair"
                    THEN Done("", <<ParseInt(got[1][1]), ParseFloat(got[1][2])>>)
                    ELSE Done("", <<ParseFloat(got[1][2])>>)
               ELSE Done("ValueError", << >>)
          [] OTHER -> Done("", <<PyStr("text")>>)

\* as request_last_error_code, without the assignment to the attribute
request_last_error_code_unstored(old, code) == old

\* _request_last_error_code: the new value of _last_error_code, given the
\* int the reply converted to
request_last_error_code(old, code) == code

\* as assigned_last_error_code, with the attribute reset to -1 when int()
\* raises
assigned_last_error_code_reset(old, out) ==
    IF out.exc = "" THEN request_last_error_code(old, out.val[1].m) ELSE -1

\* the statement self._last_error_code = int(...): _last_error_code after
\* it, given how the conversion of the reply ended; an exception of int()
\* leaves the statement before the assignment
assigned_last_error_code(old, out) ==
    IF out.exc = "" THEN request_last_error_code(old, out.val[1].m) ELSE old

\* check_error: what it logs for the code it got
check_error(label, code) ==
    IF code # 0
    THEN <<WarnEv([step |-> label, code |-> code,
                   brief |-> last_error_brief(code),
                   full |-> last_error_full(code)])>>
    ELSE << >>

\* the methods that end in _request_last_error_code
CachesErrorCode(call) == call.op = "check_error"

\* Socket.receive returns what is in the receive buffer; the blocked call
\* converts it and returns or raises
Receive(t) ==
    /\ t \in callers
    /\ pc[t] = "recv"
    /\ rxbuf # << >>
    /\ LET out == Decode(DecodeKind(cur[t]), rxbuf)
       IN  /\ res' = [res EXCEPT ![t] = out]
           /\ last_error_code' =
                  IF CachesErrorCode(cur[t])
                  THEN assigned_last_error_code(last_error_code, out)
                  ELSE last_error_code
           /\ IF CachesErrorCode(cur[t]) /\ out.exc = ""
              THEN /\ log' = [log EXCEPT ![t] =
                                 Append(@, RecvEv(rxbuf, rxOf))
                                 \o check_error(cur[t].sig, out.val[1].m)]
              ELSE log' = [log EXCEPT ![t] = Append(@, RecvEv(rxbuf, rxOf))]
    /\ checked' = IF cur[t].op = "check_error" /\ Len(rxbuf) = 1
                      /\ Len(rxbuf[1]) = 1 /\ rxbuf[1][1].k = "d"
                   THEN <<rxbuf[1][1].m>> ELSE checked
    /\ rxbuf' = << >>
    /\ rxOf' = << >>
    /\ pc' = [pc EXCEPT ![t] = "idle"]
    /\ UNCHANGED <<callers, family, cur, ncalls, txq, asked, lastWrite, burstMode, timedOut,
                   burst_maxtime_limit>>

\* socket.recv raises socket.timeout: nothing arrived within the timeout.
\* The exception leaves the call; the socket object is left as it is.
Timeout(t) ==
    /\ t \in callers
    /\ pc[t] = "recv"
    /\ rxbuf = << >>
    /\ res' = [res EXCEPT ![t] = Done("TimeoutError", << >>)]
    /\ pc' = [pc EXCEPT ![t] = "idle"]
    /\ timedOut' = TRUE
    /\ UNCHANGED <<callers, family, cur, log, ncalls, last_error_code, txq, asked,
                   rxbuf, rxOf, lastWrite, burstMode, checked,
                   burst_maxtime_limit>>

\* ----------------------------------------------------------- the instrument
\* A test double: it keeps the last write and answers a query of the same
\* parameter (and channel) with the written payload, any other query with 0;
\* it keeps the burst mode apart and answers BURM? with it;
\* LERR? is answered with any code, or with text that is no number.
DefaultReply(c) ==
    CASE c.mn = "*IDN" -> <<Txt("idn", 0, 0)>>
      [] c.mn = "DLAY" -> <<Txt("d", 0, 0), Txt("e", 0, 0)>>
      [] OTHER -> <<Txt("d", 0, 0)>>

\* replies that are not what the query asks for: text that is no number,
\* an index with no trigger source, a delay without its reference
MalformedReplies(c) ==
    CASE c.mn = "TSRC" ->
             {<<Txt("junk", 0, 0)>>, <<Txt("d", 7, 0)>>, <<Txt("d", -1, 0)>>}
      [] c.mn = "BURC" -> {<<Txt("junk", 0, 0)>>}
      [] c.mn = "BURM" -> {<<Txt("junk", 0, 0)>>, <<Txt("f2", 100, -2)>>}
      [] c.mn = "DLAY" ->
             {<<Txt("e", 1, -3)>>,
              <<Txt("d", 0, 0), Txt("e", 1, -3), Txt("d", 0, 0)>>}
      [] OTHER -> {}

EchoReply(c, lw) ==
    IF c.mn \in {"LAMP", "LPOL", "DLAY"}
    THEN IF lw.mn = c.mn /\ lw.args[1] = c.args[1]
         THEN Tail(lw.args) ELSE DefaultReply(c)
    ELSE IF lw.mn = c.mn THEN lw.args ELSE DefaultReply(c)

Replies(c, lw) ==
    IF c.mn = "LERR"
    THEN {<<Txt("d", code, 0)>> : code \in InstrCodes} \cup {<<Txt("junk", 0, 0)>>}
    ELSE {EchoReply(c, lw)} \cup MalformedReplies(c)

\* the instrument answers the oldest query, and reads the writes behind it
InstrumentStep ==
    /\ txq # << >>
    /\ \E r \in IF Head(txq).mn = "BURM"
                 THEN {burstMode} \cup MalformedReplies(Head(txq))
                 ELSE Replies(Head(txq), lastWrite) :
          rxbuf' = Append(rxbuf, r)
    /\ rxOf' = Append(rxOf, Head(asked))
    /\ asked' = Tail(asked)
    /\ LET d == Deliver(<< >>, lastWrite, Tail(txq))
       IN  /\ txq' = d.q
           /\ lastWrite' = d.lw
    /\ burstMode' = StoreBurstMode(burstMode, Taken(<< >>, Tail(txq)))
    /\ UNCHANGED <<callers, family, pc, cur, res, log, ncalls, last_error_code,
                   timedOut, checked,
                   burst_maxtime_limit>>

\* ------------------------------------------------------------ specification
Next ==
    \/ \E t \in Threads, s \in AmplitudeSignals, v \in AmplitudeInputs :
          AmplitudePut(t, s, v)
    \/ \E t \in Threads, s \in AmplitudeSignals : AmplitudeGet(t, s)
    \/ \E t \in Threads, s \in PolaritySignals, v \in PolarityInputs :
          PolarityPut(t, s, v)
    \/ \E t \in Threads, s \in PolaritySignals : PolarityGet(t, s)
    \/ \E t \in Threads, v \in BurstBoolInputs : BurstModePut(t, v)
    \/ \E t \in Threads : BurstModeGet(t)
    \/ \E t \in Threads, v \in BurstBoolInputs : BurstT0ConfigPut(t, v)
    \/ \E t \in Threads, v \in BurstDelayInputs : BurstDelayPut(t, v)
    \/ \E t \in Threads : LastErrorCodeGet(t)
    \/ \E t \in Threads : Identify(t)
    \/ \E t \in Threads, c \in OutputIdents : GetLevelAmplitude(t, c)
    \/ \E t \in Threads, c \in OutputIdents :
          SetLevelAmplitude(t, c, PyFloat(25, -1))
    \/ \E t \in Threads, c \in OutputIdents : GetLevelPolarity(t, c)
    \/ \E t \in Threads, c \in OutputIdents : SetLevelPolarity(t, c, PyInt(1))
    \/ \E t \in Threads, d \in DelayInputs : SetDelayT0(t, d)
    \/ \E t \in Threads, d \in DelayInputs, w \in DurationInputs :
          SetDelayAB(t, d, w)
    \/ \E t \in Threads, d \in DelayInputs, w \in DurationInputs :
          SetDelayCD(t, d, w)
    \/ \E t \in Threads, d \in DelayInputs, w \in DurationInputs :
          SetDelayEF(t, d, w)
    \/ \E t \in Threads, d \in DelayInputs, w \in DurationInputs :
          SetDelayGH(t, d, w)
    \/ \E t \in Threads, l \in StepLabels : CheckError(t, l)
    \/ \E t \in Threads, v \in BurstCountInputs : BurstCountPut(t, v)
    \/ \E t \in Threads : BurstCountGet(t)
    \/ \E t \in Threads, v \in BurstPeriodInputs : BurstPeriodPut(t, v)
    \/ \E t \in Threads, v \in LimitInputs : BurstMaxtimeLimitPut(t, v)
    \/ \E t \in Threads, v \in TriggerInputs : TriggerSourcePut(t, v)
    \/ \E t \in Threads : TriggerSourceGet(t)
    \/ \E t \in Threads : Trigger(t)
    \/ \E t \in Threads : SetDefaults(t)
    \/ \E t \in Threads, ch \in DelaySignalChannels : DelayGet(t, ch)
    \/ \E t \in Threads, c \in ChannelIdents : GetChannelDelay(t, c)
    \/ \E t \in Threads, c \in ChannelIdents, b \in BasisInputs :
          SetChannelDelay(t, c, b, PyFloat(1, -3))
    \/ \E t \in Threads, c \in BurstSetCycles, p \in BurstSetPeriods,
          d \in BurstDelayInputs : BurstSet(t, c, p, d)
    \/ \E t \in Threads : BurstInit(t)
    \/ \E t \in Threads : PlanBurstInit(t)
    \/ \E t \in Threads, c \in BurstSetCycles, p \in BurstSetPeriods,
          d \in BurstDelayInputs : PlanBurstSet(t, c, p, d)
    \/ \E t \in Threads : BurstStep(t)
    \/ \E t \in Threads : Receive(t)
    \/ \E t \in Threads : Timeout(t)
    \/ InstrumentStep

\* one caller
Spec == Init /\ [][Next]_vars

\* two callers sharing the driver instance
SpecConc == InitConc /\ [][Next]_vars

\* ------------------------------------------------------------------ claims
\* the commands a call sent, in order
SendsOf(l) ==
    LET s == SelectSeq(l, LAMBDA e : e.ev = "send")
    IN  [i \in 1..Len(s) |-> s[i].cmd]

\* a call of thread t has returned or raised
Finished(t) == res[t].st = "done"

Returned(t) == res[t] = Done("", << >>)

\* the text t is a number of value v
Denotes(t, v) == t.k \in {"d", "r", "f2", "e"} /\ t.m = v.m /\ t.e = v.e

\* the text t is the digit string of the integer n
Digits(t, n) == t = Txt("d", n, 0)

\* the amplitudes of the inputs, in millivolts
MilliVolts(v) == v.m * Pow10(v.e + 3)

AmplitudeOutOfRange(v) ==
    AbsInt(MilliVolts(v)) < 500 \/ AbsInt(MilliVolts(v)) > 5000

\* the output each signal is named after: T0 = 0, AB = 1, CD = 2, EF = 3,
\* GH = 4
OutputOfSignal ==
    [amplitudeT0 |-> 0, amplitudeAB |-> 1, amplitudeCD |-> 2,
     amplitudeEF |-> 3, amplitudeGH |-> 4,
     polarityT0 |-> 0, polarityAB |-> 1, polarityCD |-> 2,
     polarityEF |-> 3, polarityGH |-> 4]

OutputOfName == [T0 |-> 0, AB |-> 1, CD |-> 2, EF |-> 3, GH |-> 4]

\* C1: setting the amplitude of any output to a value a with |a| < 0.5 or
\* |a| > 5.0 raises the validation error (ValueError) and sends no command.
C1_AmplitudeOutOfRangeRejected ==
    \A t \in Threads :
        (cur[t].op = "amplitude.put" /\ AmplitudeOutOfRange(cur[t].val))
        => /\ res[t] = Done("ValueError", << >>)
           /\ SendsOf(log[t]) = << >>

C1_Witness ==
    /\ cur[1].op = "amplitude.put"
    /\ cur[1].sig = "amplitudeGH"
    /\ cur[1].val = PyFloat(60, -1)
    /\ res[1].exc = "ValueError"
    /\ lastWrite.mn = "LAMP"

\* a step in which thread t sends a command (one caller)
StepSends(t) ==
    IF ncalls' # ncalls THEN Len(SendsOf(log'[t])) > 0
    ELSE Len(SendsOf(log'[t])) > Len(SendsOf(log[t]))

\* C2: once a request has failed with a timeout, no later facade call
\* reaches the instrument, and none returns a value: each fails with the
\* communication error.
C2_StaysDisconnected ==
    [][timedOut =>
         \A t \in callers :
             /\ ~StepSends(t)
             /\ (pc[t] = "recv" /\ pc'[t] = "idle")
                => res'[t].exc = "TimeoutError"]_vars

\* C3: at most one caller is between the send and the receive of a query.
C3_OneOutstanding == Cardinality({t \in callers : pc[t] = "recv"}) <= 1

\* C4: burst_init sends exactly BURM 1, BURT 1 and BURD with the value 0,
\* in this order, sleeps the settle delay after each, and reads nothing.
C4_BurstInitWrites ==
    \A t \in Threads :
        (cur[t].op = "burst_init" /\ Returned(t))
        => /\ Len(log[t]) = 6
           /\ \A i \in {2, 4, 6} : log[t][i] = SleepEv
           /\ log[t][1] = SendEv(Cmd("BURM", FALSE, <<Txt("d", 1, 0)>>))
           /\ log[t][3] = SendEv(Cmd("BURT", FALSE, <<Txt("d", 1, 0)>>))
           /\ log[t][5].ev = "send"
           /\ log[t][5].cmd.mn = "BURD"
           /\ ~log[t][5].cmd.q
           /\ Len(log[t][5].cmd.args) = 1
           /\ Denotes(log[t][5].cmd.args[1], PyInt(0))

\* C5: every BURT write and every LPOL write on the wire carries the
\* payload 0 or 1, and a put of a value that is not exactly 0 or 1 raises
\* an error (here: any exception) and sends nothing.
C5_ZeroOrOnePayload ==
    \A t \in Threads :
        /\ \A i \in 1..Len(log[t]) :
              (log[t][i].ev = "send" /\ log[t][i].cmd.mn \in {"BURT", "LPOL"}
               /\ ~log[t][i].cmd.q)
              => LET a == log[t][i].cmd.args
                 IN  Digits(a[Len(a)], 0) \/ Digits(a[Len(a)], 1)
        /\ (cur[t].op \in {"polarity.put", "burst_T0_config.put"}
            /\ cur[t].val \notin {PyInt(0), PyInt(1)})
           => /\ Finished(t)
              /\ res[t].exc # ""
              /\ SendsOf(log[t]) = << >>

\* the DLAY write of channel ch with reference ref and the value v
IsDelayWrite(c, ch, ref, v) ==
    /\ c.mn = "DLAY"
    /\ ~c.q
    /\ Len(c.args) = 3
    /\ Digits(c.args[1], ch)
    /\ Digits(c.args[2], ref)
    /\ Denotes(c.args[3], v)

PulseHelpers ==
    {"set_delay_T0", "set_delay_AB", "set_delay_CD", "set_delay_EF",
     "set_delay_GH"}

\* the leading-edge channel of the pulse each helper sets: T0, A, C, E, G
LeadingChannel ==
    [set_delay_T0 |-> 0, set_delay_AB |-> 2, set_delay_CD |-> 4,
     set_delay_EF |-> 6, set_delay_GH |-> 8]

\* C6 as claimed: each of the five pulse helpers sends exactly two DLAY
\* writes: the leading channel with reference 0, then the trailing channel
\* with the leading channel as reference.
C6_TwoWritesEach ==
    \A t \in Threads :
        (cur[t].op \in PulseHelpers /\ Finished(t))
        => LET s == SendsOf(log[t])
           IN  /\ Returned(t)
               /\ Len(s) = 2
               /\ s[1].mn = "DLAY" /\ s[2].mn = "DLAY"
               /\ Digits(s[1].args[2], 0)
               /\ Denotes(s[1].args[3], cur[t].val)
               /\ s[2].args[2] = s[1].args[1]

\* C6 amended: set_delay_AB, _CD, _EF and _GH send exactly two DLAY writes,
\* (ch, reference 0, delay) then (ch + 1, reference ch, duration) with
\* ch = 2, 4, 6, 8; set_delay_T0 sends exactly one, (1, reference 0, delay).
C6_PulseHelperWrites ==
    \A t \in Threads :
        (cur[t].op \in PulseHelpers /\ Finished(t))
        => LET s == SendsOf(log[t])
               ch == LeadingChannel[cur[t].op]
           IN  /\ Returned(t)
               /\ Len(log[t]) = Len(s)
               /\ IF cur[t].op = "set_delay_T0"
                  THEN /\ Len(s) = 1
                       /\ IsDelayWrite(s[1], 1, 0, cur[t].val)
                  ELSE /\ Len(s) = 2
                       /\ IsDelayWrite(s[1], ch, 0, cur[t].val)
                       /\ IsDelayWrite(s[2], ch + 1, ch, cur[t].val2)

C6_Witness ==
    /\ cur[1].op = "set_delay_GH"
    /\ Returned(1)
    /\ Len(log[1]) = 2
    /\ lastWrite.mn = "DLAY"
    /\ Digits(lastWrite.args[1], 9)

\* C7: for each output k the polarity signal of that output reads with
\* LPOL? k, writes v in {0, 1} with LPOL k,v, and reads back what was
\* written.
C7_PolarityPairs ==
    \A t \in Threads :
        LET k == OutputOfSignal[cur[t].sig]
        IN  /\ cur[t].op = "polarity.get"
               => /\ Len(log[t]) >= 1
                  /\ log[t][1] = SendEv(Cmd("LPOL", TRUE, <<Txt("d", k, 0)>>))
            /\ (cur[t].op = "polarity.put"
                /\ cur[t].val \in {PyInt(0), PyInt(1)})
               => /\ Returned(t)
                  /\ log[t] = <<SendEv(Cmd("LPOL", FALSE,
                                  <<Txt("d", k, 0), Txt("d", cur[t].val.m, 0)>>))>>
            /\ (cur[t].op = "polarity.get" /\ res[t].st = "done"
                /\ res[t].exc = "" /\ ~timedOut /\ lastWrite.mn = "LPOL"
                /\ Digits(lastWrite.args[1], k)
                /\ (Digits(lastWrite.args[2], 0) \/ Digits(lastWrite.args[2], 1)))
               => res[t].val = <<PyInt(lastWrite.args[2].m)>>

\* C8: an amplitude or polarity get or set called with the name of an
\* output (T0, AB, CD, EF, GH) is accepted and addresses the output of the
\* matching index 0..4.
C8_NamesAccepted ==
    \A t \in Threads :
        (cur[t].op \in {"_get_level_amplitude", "_set_level_amplitude",
                        "_get_level_polarity", "_set_level_polarity"}
         /\ cur[t].ident.ty = "str"
         /\ cur[t].ident.s \in DOMAIN OutputOfName)
        => /\ res[t].exc # "KeyError"
           /\ Len(log[t]) >= 1
           /\ log[t][1].ev = "send"
           /\ Digits(log[t][1].cmd.args[1], OutputOfName[cur[t].ident.s])

\* C9: a check_error that gets an integer code c from the instrument has
\* sent exactly one LERR?, stores c, returns without raising, and logs one
\* warning if c # 0 and none if c = 0; the warning carries the step label,
\* c, and the two texts of the table for c, or "unknown" twice if the table
\* has no c.
C9_CheckError ==
    \A t \in Threads :
        (cur[t].op = "check_error" /\ Finished(t))
        => LET w == SelectSeq(log[t], LAMBDA e : e.ev = "warn")
               r == SelectSeq(log[t], LAMBDA e : e.ev = "recv")
           IN  /\ SendsOf(log[t]) = <<Cmd("LERR", TRUE, << >>)>>
               /\ (Len(r) = 1 /\ Len(r[1].rx) = 1 /\ Len(r[1].rx[1]) = 1
                   /\ r[1].rx[1][1].k = "d")
                  => LET c == r[1].rx[1][1].m
                     IN  /\ res[t].exc = ""
                         /\ last_error_code = c
                         /\ c = 0 => w = << >>
                         /\ c # 0 =>
                              /\ Len(w) = 1
                              /\ w[1].w.step = cur[t].sig
                              /\ w[1].w.code = c
                              /\ IF c \in DOMAIN DG645_ERROR_CODES
                                 THEN /\ w[1].w.brief = DG645_ERROR_CODES[c][1]
                                      /\ w[1].w.full = DG645_ERROR_CODES[c][2]
                                 ELSE /\ w[1].w.brief = "unknown"
                                      /\ w[1].w.full = "unknown"
                         /\ c = 170 => w[1].w.brief = "Communication Error"

C9_Witness ==
    /\ cur[1].op = "check_error"
    /\ cur[1].sig = "load"
    /\ Finished(1)
    /\ last_error_code = 9999
    /\ checked = <<9999>>
    /\ \E i \in 1..Len(log[1]) :
          log[1][i].ev = "warn" /\ log[1][i].w.full = "unknown"

\* C10: last_error_code is -1 until a check_error has got a code from the
\* instrument, and then the code the last such check_error got; no other
\* operation sends LERR?.
C10_LastErrorCodeCache ==
    /\ last_error_code = IF checked = << >> THEN -1 ELSE checked[1]
    /\ \A t \in Threads :
          (\E i \in 1..Len(log[t]) :
               log[t][i].ev = "send" /\ log[t][i].cmd.mn = "LERR")
          => cur[t].op = "check_error"

C10_Witness ==
    /\ checked = <<170>>
    /\ last_error_code = 170
    /\ cur[1].op = "identify.get"
    /\ Finished(1)
    /\ res[1].exc = ""

\* the gets that read a parameter of the instrument (last_error_code.get
\* reads the cached code)
InstrumentGets ==
    {"amplitude.get", "polarity.get", "burst_count.get", "trigger_source.get",
     "delay.get", "identify.get"}

InstrumentSets ==
    {"amplitude.put", "polarity.put", "burst_mode_enable.put",
     "burst_T0_config.put", "burst_delay.put", "burst_count.put",
     "burst_period.put", "trigger_source.put"}

\* an int (not a bool) between lo and hi
IntIn(v, lo, hi) == v.ty = "int" /\ lo <= v.m /\ v.m <= hi

\* a period of the inputs is between 100 ns and 25 s: the inputs are whole
\* milliseconds, or whole nanoseconds below a millisecond
PeriodInRange(v) ==
    IF v.e >= -3
    THEN 0 < v.m /\ v.m * Pow10(v.e + 3) <= 25000
    ELSE 100 <= v.m * Pow10(v.e + 9) /\ v.m * Pow10(v.e + 9) < 1000000

\* the value of a set is in the range documented for its parameter
PassesValidation(call) ==
    CASE call.op = "amplitude.put" -> ~AmplitudeOutOfRange(call.val)
      [] call.op \in {"polarity.put", "burst_T0_config.put"} ->
             IntIn(call.val, 0, 1)
      [] call.op = "burst_count.put" ->
             IntIn(call.val, 0, burst_maxtime_limit.m)
      [] call.op = "burst_period.put" ->
             PeriodInRange(call.val)
      [] call.op = "trigger_source.put" ->
             \/ IntIn(call.val, 0, 6)
             \/ call.val.ty = "str" /\ InSeq(DG645_TSRC, call.val.s)
      [] OTHER -> TRUE

EventKinds(l) == [i \in 1..Len(l) |-> l[i].ev]

\* C11: a get that ends without a timeout has done one send (a query) and
\* then one receive; a set whose value passes validation has done one send
\* (a write) and no receive.
C11_OneRoundTrip ==
    \A t \in Threads :
        /\ (cur[t].op \in InstrumentGets /\ Finished(t)
            /\ res[t].exc # "TimeoutError")
           => /\ EventKinds(log[t]) = <<"send", "recv">>
              /\ log[t][1].cmd.q
        /\ (cur[t].op \in InstrumentSets /\ PassesValidation(cur[t]))
           => /\ Finished(t)
              /\ EventKinds(log[t]) = <<"send">>
              /\ ~log[t][1].cmd.q

\* the reply a call got is the payload of the last write the instrument took
GotLastWrite(t) ==
    /\ ~timedOut
    /\ Len(log[t]) = 2
    /\ log[t][2].ev = "recv"
    /\ log[t][2].rx = <<lastWrite.args>>

\* C12: a put of one of the seven trigger-source labels sends TSRC n with n
\* the position (from 0) of the label in the list, and a get that is
\* answered with the index n last written returns the label at position n:
\* put(label) then get() returns label.
C12_TriggerSourceRoundTrip ==
    \A t \in Threads :
        /\ (cur[t].op = "trigger_source.put" /\ cur[t].val.ty = "str"
            /\ InSeq(DG645_TSRC, cur[t].val.s))
           => /\ Returned(t)
              /\ \E n \in 0..6 :
                    /\ DG645_TSRC[n + 1] = cur[t].val.s
                    /\ log[t] = <<SendEv(Cmd("TSRC", FALSE, <<Txt("d", n, 0)>>))>>
        /\ (cur[t].op = "trigger_source.get" /\ Finished(t)
            /\ lastWrite.mn = "TSRC" /\ GotLastWrite(t)
            /\ \E n \in 0..6 : Digits(lastWrite.args[1], n))
           => /\ res[t].exc = ""
              /\ res[t].val = <<PyStr(DG645_TSRC[lastWrite.args[1].m + 1])>>

C12_Witness ==
    /\ cur[1].op = "trigger_source.get"
    /\ lastWrite = Cmd("TSRC", FALSE, <<Txt("d", 4, 0)>>)
    /\ GotLastWrite(1)
    /\ res[1] = Done("", <<PyStr("Single shot external falling edges")>>)

\* C13: a put to the trigger source of a string that is no label, or of an
\* integer outside 0..6, raises ValueError; of a value that is neither a
\* string nor an integer, TypeError; nothing is sent in these cases.  A
\* valid value sends one TSRC n, n the index in 0..6.  (A bool is taken
\* either way: rejected as no integer, or sent as the index 0 or 1.)
C13_TriggerSourceValidation ==
    \A t \in Threads :
        cur[t].op = "trigger_source.put"
        => LET v == cur[t].val
               rejected(kind) ==
                   res[t] = Done(kind, << >>) /\ log[t] = << >>
               sent(n) ==
                   /\ Returned(t)
                   /\ log[t] = <<SendEv(Cmd("TSRC", FALSE, <<Txt("d", n, 0)>>))>>
           IN  CASE v.ty = "str" ->
                      IF InSeq(DG645_TSRC, v.s)
                      THEN \E n \in 0..6 : sent(n)
                      ELSE rejected("ValueError")
                 [] v.ty = "int" ->
                      IF 0 <= v.m /\ v.m <= 6 THEN sent(v.m)
                      ELSE rejected("ValueError")
                 [] v.ty = "bool" -> rejected("TypeError") \/ sent(v.m)
                 [] OTHER -> rejected("TypeError")

\* the reply a call got is the payload, after the channel, of the last
\* write the instrument took, and that write was for channel k
GotLastWriteOf(t, mnemonic, k) ==
    /\ ~timedOut
    /\ lastWrite.mn = mnemonic
    /\ Digits(lastWrite.args[1], k)
    /\ Len(log[t]) = 2
    /\ log[t][2].ev = "recv"
    /\ log[t][2].rx = <<Tail(lastWrite.args)>>

\* C14: a put of an amplitude a with 0.5 <= |a| <= 5.0 to the signal of
\* output k sends one LAMP k,x with x written with two decimals and
\* |x - a| <= 0.005; a get of output k answered with the x last written for
\* k returns the float x.
C14_AmplitudeRoundTrip ==
    \A t \in Threads :
        LET k == OutputOfSignal[cur[t].sig]
        IN  /\ (cur[t].op = "amplitude.put"
                /\ ~AmplitudeOutOfRange(cur[t].val))
               => /\ Returned(t)
                  /\ Len(log[t]) = 1
                  /\ log[t][1].ev = "send"
                  /\ LET c == log[t][1].cmd
                     IN  /\ c.mn = "LAMP" /\ ~c.q /\ Len(c.args) = 2
                         /\ Digits(c.args[1], k)
                         /\ c.args[2].k = "f2" /\ c.args[2].e = -2
                         /\ AbsInt(10 * c.args[2].m - MilliVolts(cur[t].val)) <= 5
            /\ (cur[t].op = "amplitude.get" /\ Finished(t)
                /\ GotLastWriteOf(t, "LAMP", k))
               => /\ log[t][1] = SendEv(Cmd("LAMP", TRUE, <<Txt("d", k, 0)>>))
                  /\ res[t] = Done("", <<PyFloat(lastWrite.args[2].m, -2)>>)

C14_Witness ==
    /\ cur[1].op = "amplitude.get"
    /\ cur[1].sig = "amplitudeCD"
    /\ GotLastWriteOf(1, "LAMP", 2)
    /\ res[1] = Done("", <<PyFloat(-124, -2)>>)

\* the index of each channel: T0 = 0, T1 = 1, A = 2, ... H = 9
ChannelOfName ==
    [T0 |-> 0, T1 |-> 1, A |-> 2, B |-> 3, C |-> 4, D |-> 5, E |-> 6, F |-> 7,
     G |-> 8, H |-> 9]

\* the channel a valid identifier names, -1 for any other identifier
ChannelOf(ident) ==
    CASE ident.ty = "int" /\ 0 <= ident.m /\ ident.m <= 9 -> ident.m
      [] ident.ty = "str" /\ ident.s \in DOMAIN ChannelOfName ->
             ChannelOfName[ident.s]
      [] OTHER -> -1

\* C15: _set_channel_delay(ch, ref, d) with a valid channel, given by name
\* or by index, sends exactly one DLAY k,ref,d with k the index of the
\* channel; _get_channel_delay of channel k answered with the ref,d last
\* written for k returns the pair (int ref, float d).
C15_ChannelDelayRoundTrip ==
    \A t \in Threads :
        LET k == ChannelOf(cur[t].ident)
        IN  /\ (cur[t].op = "_set_channel_delay" /\ k >= 0)
               => /\ Returned(t)
                  /\ Len(log[t]) = 1
                  /\ log[t][1].ev = "send"
                  /\ IsDelayWrite(log[t][1].cmd, k, cur[t].val2.m, cur[t].val)
            /\ (cur[t].op = "_get_channel_delay" /\ k >= 0 /\ Finished(t)
                /\ GotLastWriteOf(t, "DLAY", k))
               => /\ log[t][1] = SendEv(Cmd("DLAY", TRUE, <<Txt("d", k, 0)>>))
                  /\ res[t] = Done("", <<PyInt(lastWrite.args[2].m),
                                         PyFloat(lastWrite.args[3].m,
                                                 lastWrite.args[3].e)>>)

C15_Witness ==
    /\ cur[1].op = "_get_channel_delay"
    /\ cur[1].ident = PyStr("A")
    /\ lastWrite.args = <<Txt("d", 2, 0), Txt("d", 0, 0), Txt("r", 1, -3)>>
    /\ GotLastWriteOf(1, "DLAY", 2)
    /\ res[1] = Done("", <<PyInt(0), PyFloat(1, -3)>>)

\* the identifier of a call names no output (for the methods of an output)
\* or no channel (for the methods of a channel)
UnknownIdent(call) ==
    CASE call.op \in {"_get_level_amplitude", "_set_level_amplitude",
                      "_get_level_polarity", "_set_level_polarity"} ->
             ~ \/ call.ident.ty = "int" /\ 0 <= call.ident.m /\ call.ident.m <= 4
               \/ call.ident.ty = "str" /\ call.ident.s \in DOMAIN OutputOfName
      [] call.op \in {"_get_channel_delay", "_set_channel_delay"} ->
             ChannelOf(call.ident) < 0
      [] OTHER -> FALSE

\* C16: a get or set called with an unknown name, or with an index outside
\* 0..9 (channels) or 0..4 (outputs), raises the error that a value out of
\* range raises (ValueError) and sends nothing.
C16_UnknownIdentRejected ==
    \A t \in Threads :
        UnknownIdent(cur[t])
        => /\ res[t] = Done("ValueError", << >>)
           /\ log[t] = << >>

\* C17: burst_set(cycles, period, delay) with 0 <= cycles <= the limit and
\* 100e-9 <= period <= 25.0 returns after exactly three writes, BURC cycles,
\* BURP period and BURD delay in this order, each followed by a sleep of
\* the settle delay, and no receive.
C17_BurstSetWrites ==
    \A t \in Threads :
        (cur[t].op = "burst_set" /\ Finished(t)
         /\ IntIn(cur[t].ident, 0, burst_maxtime_limit.m)
         /\ PeriodInRange(cur[t].val))
        => /\ Returned(t)
           /\ EventKinds(log[t]) =
                 <<"send", "sleep", "send", "sleep", "send", "sleep">>
           /\ \A i \in {2, 4, 6} : log[t][i].ms = SettleMs
           /\ \A i \in {1, 3, 5} :
                 ~log[t][i].cmd.q /\ Len(log[t][i].cmd.args) = 1
           /\ log[t][1].cmd.mn = "BURC"
           /\ Digits(log[t][1].cmd.args[1], cur[t].ident.m)
           /\ log[t][3].cmd.mn = "BURP"
           /\ Denotes(log[t][3].cmd.args[1], cur[t].val)
           /\ log[t][5].cmd.mn = "BURD"
           /\ Denotes(log[t][5].cmd.args[1], cur[t].val2)

C17_Witness ==
    /\ cur[1].op = "burst_set"
    /\ cur[1].ident = PyInt(10)
    /\ cur[1].val = PyFloat(1, -3)
    /\ Returned(1)
    /\ Len(log[1]) = 6
    /\ lastWrite.mn = "BURD"

\* a put of v to burst_count has sent BURC v if 0 <= v <= the limit, and
\* has raised ValueError and sent nothing otherwise
BurstCountWithinLimit ==
    \A t \in Threads :
        cur[t].op = "burst_count.put"
        => IF 0 <= cur[t].val.m /\ cur[t].val.m <= burst_maxtime_limit.m
           THEN /\ Returned(t)
                /\ log[t] = <<SendEv(Cmd("BURC", FALSE,
                                         <<Txt("d", cur[t].val.m, 0)>>))>>
           ELSE /\ res[t] = Done("ValueError", << >>)
                /\ log[t] = << >>

\* the limit starts at 41, a put to burst_maxtime_limit sets it, and
\* nothing else changes it
LimitFollowsPut ==
    \A t \in Threads :
        /\ (cur'[t].op = "burst_maxtime_limit.put" /\ cur'[t] # cur[t])
           => burst_maxtime_limit' = cur'[t].val
        /\ (\A u \in Threads : cur'[u].op # "burst_maxtime_limit.put"
                               \/ cur'[u] = cur[u])
           => burst_maxtime_limit' = burst_maxtime_limit

\* C18: a put of v to burst_count sends BURC v if and only if 0 <= v <= the
\* current value of burst_maxtime_limit, which is 41 until a put to
\* burst_maxtime_limit changes it; otherwise the put raises ValueError and
\* sends nothing.
C18_BurstCountLimit ==
    /\ burst_maxtime_limit = PyInt(41)
    /\ [](BurstCountWithinLimit)
    /\ [][LimitFollowsPut]_vars

C18_Witness ==
    /\ cur[1].op = "burst_count.put"
    /\ cur[1].val = PyInt(42)
    /\ burst_maxtime_limit = PyInt(100)
    /\ Returned(1)
    /\ lastWrite = Cmd("BURC", FALSE, <<Txt("d", 42, 0)>>)

\* C19: a put of a period p to burst_period sends one BURP p if
\* 100e-9 <= p <= 25.0, the two bounds included, and raises ValueError and
\* sends nothing otherwise (99e-9, 25.1).
C19_BurstPeriodRange ==
    \A t \in Threads :
        cur[t].op = "burst_period.put"
        => IF PeriodInRange(cur[t].val)
           THEN /\ Returned(t)
                /\ Len(log[t]) = 1
                /\ log[t][1].ev = "send"
                /\ log[t][1].cmd.mn = "BURP"
                /\ ~log[t][1].cmd.q
                /\ Len(log[t][1].cmd.args) = 1
                /\ Denotes(log[t][1].cmd.args[1], cur[t].val)
           ELSE /\ res[t] = Done("ValueError", << >>)
                /\ log[t] = << >>

C19_Witness ==
    /\ cur[1].op = "burst_period.put"
    /\ cur[1].val = PyFloat(100, -9)
    /\ Returned(1)
    /\ lastWrite = Cmd("BURP", FALSE, <<Txt("e", 100, -9)>>)

\* the one reply a call received cannot be parsed for the operation
Unparseable(call, reply) ==
    CASE call.op \in {"check_error", "burst_count.get"} ->
             ~(Len(reply) = 1 /\ reply[1].k = "d")
      [] call.op = "trigger_source.get" ->
             ~(Len(reply) = 1 /\ reply[1].k = "d"
               /\ 0 <= reply[1].m /\ reply[1].m <= 6)
      [] call.op \in {"_get_channel_delay", "delay.get"} ->
             Len(reply) # 2
      [] OTHER -> FALSE

\* the errors raised for bad input of the caller
ValidationErrors == {"ValueError", "KeyError", "TypeError"}

\* C20: a get that receives a reply it cannot parse fails, with an error
\* that is none of the errors raised for bad input of the caller.
C20_MalformedReplyError ==
    \A t \in Threads :
        (Finished(t) /\ Len(log[t]) >= 2 /\ log[t][2].ev = "recv"
         /\ Len(log[t][2].rx) = 1
         /\ Unparseable(cur[t], log[t][2].rx[1]))
        => /\ res[t].exc # ""
           /\ res[t].exc \notin ValidationErrors

\* C21: trigger() sends exactly one *TRG, receives nothing, and returns a
\* status object that is finished.
C21_TriggerSendsOnce ==
    \A t \in Threads :
        cur[t].op = "trigger"
        => /\ Finished(t)
           /\ log[t] = <<SendEv(Cmd("*TRG", FALSE, << >>))>>
           /\ res[t].exc = ""
           /\ Len(res[t].val) = 1
           /\ res[t].val[1].ty = "status"
           /\ res[t].val[1].m = 1

C21_Witness ==
    /\ cur[1].op = "trigger"
    /\ Finished(1)
    /\ lastWrite = Cmd("*TRG", FALSE, << >>)
    /\ rxbuf = << >>

\* the default amplitude of each output in the output map, in millivolts
DefaultMilliVolts == <<2500, 4000, 3000, 2500, 4500>>

\* C22: set_defaults() returns without raising and has sent, for every
\* output k of T0 = 0 .. GH = 4, one LAMP write of the default amplitude of
\* output k.
C22_SetDefaultsAllOutputs ==
    \A t \in Threads :
        cur[t].op = "set_defaults"
        => /\ Returned(t)
           /\ \A k \in 0..4 :
                 Cardinality({i \in 1..Len(log[t]) :
                     /\ log[t][i].ev = "send"
                     /\ log[t][i].cmd.mn = "LAMP"
                     /\ ~log[t][i].cmd.q
                     /\ Digits(log[t][i].cmd.args[1], k)
                     /\ 10 * log[t][i].cmd.args[2].m = DefaultMilliVolts[k + 1]
                     }) = 1

\* what the one socket.recv of the finished call of t returned
Received(t) == log[t][Len(log[t])].rx

\* the finished call of t got a reply
GotReply(t) == Finished(t) /\ log[t] # << >> /\ log[t][Len(log[t])].ev = "recv"

\* C23: burst_mode_enable.put(v) sends BURM 1 for a truthy v and BURM 0 for
\* a falsy v and nothing else; burst_mode_enable.get returns True exactly
\* when the reply is the text 1 and False for every other reply; after
\* burst_init has returned and the instrument has read its writes the
\* instrument holds burst mode 1, and a get that is answered with what the
\* instrument holds returns True exactly when it holds 1.
C23_BurstModeRoundTrip ==
    \A t \in Threads :
        /\ cur[t].op = "burst_mode_enable.put"
           => /\ Returned(t)
              /\ log[t] = <<SendEv(Cmd("BURM", FALSE,
                     <<Txt("d", IF Truthy(cur[t].val) THEN 1 ELSE 0, 0)>>))>>
        /\ cur[t].op = "burst_mode_enable.get" /\ GotReply(t)
           => /\ res[t].exc = ""
              /\ res[t].val =
                     <<PyBool(Received(t) = <<<<Txt("d", 1, 0)>>>>)>>
        /\ cur[t].op = "burst_init" /\ Returned(t) /\ txq = << >>
           => burstMode = <<Txt("d", 1, 0)>>
        /\ cur[t].op = "burst_mode_enable.get" /\ GotReply(t) /\ ~timedOut
           => /\ Received(t) \in {<<burstMode>>} \cup
                     {<<r>> : r \in MalformedReplies(Cmd("BURM", TRUE, << >>))}
              /\ Received(t) = <<burstMode>>
                 => res[t].val = <<PyBool(burstMode = <<Txt("d", 1, 0)>>)>>

\* burst_init, then burst_mode_enable.get answered by the instrument with
\* the burst mode it holds: the get has returned True
C23_Witness ==
    /\ ncalls = 2
    /\ cur[1].op = "burst_mode_enable.get"
    /\ GotReply(1)
    /\ lastWrite = Cmd("BURD", FALSE, <<FmtE(PyInt(0))>>)
    /\ burstMode = <<Txt("d", 1, 0)>>
    /\ Received(1) = <<burstMode>>
    /\ res[1].val = <<PyBool(TRUE)>>

\* the parameters a composite writes, in the order of its statements
CompositeWrites(call) ==
    CASE call.op = "burst_set" -> <<"BURC", "BURP", "BURD">>
      [] call.op = "burst_init" -> <<"BURM", "BURT", "BURD">>
      [] call.op = "set_delay_T0" -> <<"DLAY">>
      [] call.op \in PulseHelpers -> <<"DLAY", "DLAY">>
      [] OTHER -> << >>

\* the i-th write of a composite passes the validation of its parameter
CompositeWriteValid(call, i) ==
    IF call.op = "burst_set"
    THEN CASE i = 1 -> IntIn(call.ident, 0, burst_maxtime_limit.m)
           [] i = 2 -> PeriodInRange(call.val)
           [] OTHER -> TRUE
    ELSE TRUE

\* the first write of a composite that fails validation, or one more than
\* the number of its writes
FirstInvalid(call) ==
    LET n == Len(CompositeWrites(call))
        bad == {i \in 1..n : ~CompositeWriteValid(call, i)}
    IN  IF bad = {} THEN n + 1 ELSE CHOOSE i \in bad : \A j \in bad : i <= j

\* C24: a finished burst_set, burst_init or set_delay_XX call has sent
\* exactly the writes in front of its first write that fails validation,
\* in order, and none after; it has raised if there is such a write and
\* returned otherwise.
C24_FailsAsPrefix ==
    \A t \in Threads :
        (CompositeWrites(cur[t]) # << >> /\ Finished(t))
        => LET k == FirstInvalid(cur[t])
               sent == SendsOf(log[t])
           IN  /\ [i \in 1..Len(sent) |-> sent[i].mn] =
                     SubSeq(CompositeWrites(cur[t]), 1, k - 1)
               /\ \A i \in 1..Len(sent) : ~sent[i].q
               /\ (res[t].exc # "") = (k <= Len(CompositeWrites(cur[t])))
               /\ res[t].exc \in {"", "ValueError"}

\* burst_set with a count within the limit and a period above 25 s has
\* raised after the write of the count alone, which the instrument has taken
C24_Witness ==
    /\ cur[1].op = "burst_set"
    /\ IntIn(cur[1].ident, 0, burst_maxtime_limit.m)
    /\ ~PeriodInRange(cur[1].val)
    /\ res[1] = Done("ValueError", << >>)
    /\ SendsOf(log[1]) = <<Cmd("BURC", FALSE, <<Txt("d", cur[1].ident.m, 0)>>)>>
    /\ lastWrite = Cmd("BURC", FALSE, <<Txt("d", cur[1].ident.m, 0)>>)

\* C25: with one caller, every reply a call has read answers the query of
\* that same call (the call in progress or last finished is call number
\* ncalls), also after an earlier query has timed out.
C25_ReplyOfOwnQuery ==
    \A t \in callers :
        \A i \in 1..Len(log[t]) :
            log[t][i].ev = "recv" => log[t][i].of = <<ncalls>>

\* the events of a method that does the puts one by one, sleeps SettleMs
\* after each and stops at the first put that raises
MethodLog(puts) ==
    LET bad == {i \in 1..Len(puts) : puts[i].exc # ""}
        k == IF bad = {} THEN Len(puts) + 1
             ELSE CHOOSE i \in bad : \A j \in bad : i <= j
    IN  [j \in 1..(2 * (k - 1)) |->
            IF j % 2 = 1 THEN SendEv(puts[(j + 1) \div 2].cmds[1])
            ELSE SleepEv]

\* the method of the device a plan stub is named after, with the arguments
\* of the call of the stub
DeviceMethod(call) ==
    [call EXCEPT !.op = IF call.op = "plan.burst_init" THEN "burst_init"
                        ELSE "burst_set"]

\* the writes and the sleeps among the events l, in order
WritesAndSleeps(l) ==
    SelectSeq(l, LAMBDA e : e.ev = "sleep" \/ (e.ev = "send" /\ ~e.cmd.q))

\* C26: a finished run of the plan stub burst_init or burst_set has made
\* the writes and sleeps that the device method burst_init or burst_set
\* makes for the same arguments: the same commands with the same values in
\* the same order and a sleep of 0.01 s after each write.
C26_PlanStubsAsMethods ==
    \A t \in Threads :
        /\ (cur[t].op \in {"burst_init", "burst_set"} /\ Finished(t))
           => WritesAndSleeps(log[t]) = MethodLog(BurstPuts(cur[t]))
        /\ (cur[t].op \in {"plan.burst_init", "plan.burst_set"} /\ Finished(t))
           => WritesAndSleeps(log[t]) =
                 MethodLog(BurstPuts(DeviceMethod(cur[t])))

\* the plan stub burst_set has run to its end with a count and a period in
\* range: three writes, each followed by a sleep
C26_Witness ==
    /\ cur[1].op = "plan.burst_set"
    /\ Returned(1)
    /\ Len(log[1]) = 6
    /\ log[1][1].cmd.mn = "BURC"
    /\ log[1][6].ms = PlanSettleMs
    /\ lastWrite.mn = "BURD"

\* a step that leaves a check_error in progress or ended by an exception
\* keeps last_error_code, and the call has logged no warning
FailedCheckKeepsCode ==
    \A t \in callers :
        (cur'[t].op = "check_error" /\ ~(res'[t].st = "done" /\ res'[t].exc = ""))
        => /\ last_error_code' = last_error_code
           /\ \A i \in 1..Len(log'[t]) : log'[t][i].ev # "warn"

\* C27: from the start of a check_error to its end by an exception (the
\* receive timed out, or the reply is not an integer) last_error_code does
\* not change, and the call logs no warning.
C27_FailedCheckErrorFrame == [][FailedCheckKeepsCode]_vars

\* a check_error has cached 170; a later check_error has got a reply that
\* is no integer and has raised, and the cache is still 170
C27_Witness ==
    /\ ncalls = 2
    /\ cur[1].op = "check_error"
    /\ res[1] = Done("ValueError", << >>)
    /\ Received(1) = <<<<Txt("junk", 0, 0)>>>>
    /\ last_error_code = 170

=============================================================================
